---- MODULE Spec2Model ----
(***************************************************************************)
(* Model of the record store, the soft-delete / cascade operations and the *)
(* search-index refresh of the marketplace directory API                   *)
(* (app/database/transactions.py, app/routers, alembic/versions).          *)
(*                                                                         *)
(* The database is modelled at statement granularity.  The committed       *)
(* state is `db` (live and shadow tables) and `company_search` (the        *)
(* materialized view).  A request handler runs in a task; every awaited    *)
(* statement is one step.  A statement issued outside `transaction(...)`   *)
(* is its own transaction (autocommit) and acts on the committed state at  *)
(* once.  Inside `transaction(...)` writes are buffered in the task's      *)
(* write set `w` and reach the committed state at COMMIT.  A READ          *)
(* COMMITTED transaction reads the committed state of the moment plus its  *)
(* own writes; a SERIALIZABLE transaction reads the snapshot taken by its  *)
(* first statement plus its own writes.  Uniqueness and foreign keys are   *)
(* checked by the store against the latest committed rows, as the          *)
(* constraints of the migrations declare them.  BEGIN takes no snapshot    *)
(* and no lock, so it is folded into the first statement that follows it.  *)
(* The conflict detection between two open SERIALIZABLE transactions       *)
(* beyond row-level write conflicts is over-approximated: any statement    *)
(* of a transaction may fail with a transient error (Fault).               *)
(***************************************************************************)
EXTENDS Naturals, FiniteSets, Sequences, TLC

\* ------------------------------------------------------------------ bounds

\* concurrent requests, one task each
MaxTasks == 2
Tasks == 1..MaxTasks
\* user ids; the row of AdminUser carries settings.admin_email
Users == {"u1", "u2"}
AdminUser == "u1"
Products == {"p1", "p2"}
Communes == {"m1"}
\* company names a request may carry
Names == {"bakery", "taller"}
\* number of company ids gen_random_uuid() may hand out
MaxCompanies == 3
\* number of injected transient failures over a run
MaxFaults == 1

\* connections of the pool (db_pool_max_size, scaled down)
MaxConns == 1
Conns == 1..MaxConns

\* settings.db_retry_attempts
db_retry_attempts == 3

CompanyIds == 1..MaxCompanies

\* ------------------------------------------------------------------ tables

LiveTables == {"users", "products", "communes", "companies"}
ShadowOf(tb) ==
    CASE tb = "users" -> "users_deleted"
      [] tb = "products" -> "products_deleted"
      [] tb = "communes" -> "communes_deleted"
      [] tb = "companies" -> "companies_deleted"
ShadowTables == {ShadowOf(tb) : tb \in LiveTables}
Tables == LiveTables \cup ShadowTables

NULL == "NULL"
Empty == [x \in {} |-> NULL]

VARIABLES
    db,              \* committed rows: table name -> (id -> row)
    company_search,  \* committed materialized view: company id -> index row
    task,            \* per task: request, position, locals, open transaction
    faults,          \* transient failures injected so far
    removed,         \* companies whose removal was acknowledged with success
    pool             \* per connection of the pool: the tasks that borrow it

vars == <<db, company_search, task, faults, removed, pool>>

\* ------------------------------------------------------------------ rows

\* users row as create_admin (AdminUser) or DB.create_user (the others) wrote it
UserRow(u) ==
    [name |-> u, email |-> u, hashed_password |-> u,
     role |-> IF u = AdminUser THEN "admin" ELSE "user",
     email_verified |-> (u = AdminUser)]

ProductRow(p) ==
    IF p = "p1" THEN [name_es |-> "pan", name_en |-> "bread"]
                ELSE [name_es |-> "auto", name_en |-> "car"]

CommuneRow(m) == [name |-> m]

CompanyRow(u, p, m, n) ==
    [user_uuid |-> u, product_uuid |-> p, commune_uuid |-> m, name |-> n]

NoRows == [tb \in Tables |-> Empty]
NoIds == [tb \in Tables |-> {}]

Ids(rows, tb) == DOMAIN rows[tb]

\* SELECT ... FROM companies WHERE <column> = v
CompaniesWhere(rows, column, v) ==
    {c \in Ids(rows, "companies") : rows["companies"][c][column] = v}

\* the SELECT of the materialized view: one row per company, LEFT JOINed
ViewRow(rows, c) ==
    LET r == rows["companies"][c]
        u == r.user_uuid
        p == r.product_uuid
        m == r.commune_uuid
    IN  [company_name |-> r.name,
         product_name_es |-> IF p \in Ids(rows, "products")
                             THEN rows["products"][p].name_es ELSE NULL,
         product_name_en |-> IF p \in Ids(rows, "products")
                             THEN rows["products"][p].name_en ELSE NULL,
         user_name |-> IF u \in Ids(rows, "users")
                       THEN rows["users"][u].name ELSE NULL,
         user_email |-> IF u \in Ids(rows, "users")
                        THEN rows["users"][u].email ELSE NULL,
         commune_name |-> IF m \in Ids(rows, "communes")
                          THEN rows["communes"][m].name ELSE NULL]

\* the view query reading the archive as well: a row for every company,
\* live or archived
ViewWithArchived(rows) ==
    LET both == [rows EXCEPT !["companies"] =
                    [c \in Ids(rows, "companies") \cup Ids(rows, "companies_deleted") |->
                        IF c \in Ids(rows, "companies")
                        THEN rows["companies"][c]
                        ELSE [f \in {"user_uuid", "product_uuid", "commune_uuid", "name"} |->
                                 rows["companies_deleted"][c][f]]]]
    IN  [c \in Ids(both, "companies") |-> ViewRow(both, c)]

View(rows) == [c \in Ids(rows, "companies") |-> ViewRow(rows, c)]

\* the rows the SELECT of the view yields for company c: c.* LEFT JOIN users,
\* products and communes on their primary keys
JoinRows(rows, c) ==
    LET r == rows["companies"][c]
        Side(tb, k) == IF k \in Ids(rows, tb) THEN {k} ELSE {NULL}
    IN  {[company_name |-> r.name,
          product_name_es |-> IF p = NULL THEN NULL ELSE rows["products"][p].name_es,
          product_name_en |-> IF p = NULL THEN NULL ELSE rows["products"][p].name_en,
          user_name |-> IF u = NULL THEN NULL ELSE rows["users"][u].name,
          user_email |-> IF u = NULL THEN NULL ELSE rows["users"][u].email,
          commune_name |-> IF m = NULL THEN NULL ELSE rows["communes"][m].name] :
            u \in Side("users", r.user_uuid),
            p \in Side("products", r.product_uuid),
            m \in Side("communes", r.commune_uuid)}

\* ------------------------------------------------------------------ write sets

NoWrites == [put |-> NoRows, del |-> NoIds, mvset |-> FALSE, mv |-> Empty]

\* rows as seen through a write set
ApplyW(base, w) ==
    [tb \in Tables |->
        [id \in (DOMAIN base[tb] \ w.del[tb]) \cup DOMAIN w.put[tb] |->
            IF id \in DOMAIN w.put[tb] THEN w.put[tb][id] ELSE base[tb][id]]]

Put(w, tb, id, row) ==
    [w EXCEPT !.put[tb] = [i \in DOMAIN w.put[tb] \cup {id} |->
                              IF i = id THEN row ELSE w.put[tb][i]],
              !.del[tb] = @ \ {id}]

Del(w, tb, ids) ==
    [w EXCEPT !.put[tb] = [i \in DOMAIN w.put[tb] \ ids |-> w.put[tb][i]],
              !.del[tb] = @ \cup ids]

\* ids of committed rows a write set changes or removes
Touched(w) ==
    [tb \in Tables |-> w.del[tb] \cup (DOMAIN w.put[tb] \cap DOMAIN db[tb])]

\* ------------------------------------------------------------------ tasks

NoResult == [http |-> 0, exc |-> "none", msg |-> "none", count |-> 0]

IdleTask ==
    [op |-> "idle", pc |-> "idle", attempt |-> 1, inner |-> 1,
     requester |-> AdminUser, user |-> AdminUser, company |-> 0,
     product |-> "p1", commune |-> "m1", name |-> "bakery", described |-> TRUE,
     q |-> <<>>, lang |-> "es", script |-> <<>>,
     tx |-> "none", snap |-> NoRows, stale |-> NoIds, w |-> NoWrites,
     row |-> Empty, companies |-> Empty, todo |-> {}, count |-> 0,
     result |-> NoResult]

\* DB.is_admin: the requester's email is settings.admin_email
is_admin(u) == u = AdminUser

Open(t) == task[t].tx # "none"

\* what the statements of task t read
Reads(t) ==
    IF task[t].tx = "ser" THEN ApplyW(task[t].snap, task[t].w)
                          ELSE ApplyW(db, task[t].w)

\* another open transaction has written (inserted, updated, deleted) the row
RowLocked(t, tb, id) ==
    \E o \in Tasks \ {t} :
        /\ Open(o)
        /\ id \in task[o].w.del[tb] \cup DOMAIN task[o].w.put[tb]

Column(tb) ==
    CASE tb = "users" -> "user_uuid"
      [] tb = "products" -> "product_uuid"
      [] tb = "communes" -> "commune_uuid"

\* another open transaction holds the key-share lock of a foreign key on the row
KeyShared(t, tb, id) ==
    \E o \in Tasks \ {t} :
        /\ Open(o)
        /\ \E c \in DOMAIN task[o].w.put["companies"] :
               task[o].w.put["companies"][c][Column(tb)] = id

\* another open transaction has refreshed the view and holds its exclusive lock
MvLocked(t) == \E o \in Tasks \ {t} : Open(o) /\ task[o].w.mvset

\* a commit by task t that touched the given rows: every open SERIALIZABLE
\* transaction of another task now holds a snapshot that is stale for them
MarkStale(tk, t, touched) ==
    [o \in Tasks |->
        IF o # t /\ tk[o].tx = "ser"
        THEN [tk[o] EXCEPT !.stale = [tb \in Tables |-> @[tb] \cup touched[tb]]]
        ELSE tk[o]]

\* TRANSIENT_ERRORS of db_retry
TRANSIENT_ERRORS ==
    {"ConnectionDoesNotExistError", "ConnectionFailureError", "InterfaceError",
     "InternalServerError", "TooManyConnectionsError", "DeadlockDetectedError",
     "SerializationFailureError"}

\* first statement of the DB function an operation calls
FirstPc(op) ==
    CASE op = "delete_company" -> "dc_select"
      [] op = "create_company" -> "cc_product"
      [] op = "db_create_company" -> "dbcc_existing"
      [] op \in {"delete_me", "admin_delete_user"} -> "du_select_user"
      [] op \in {"delete_product", "delete_commune"} -> "dp_select"
      [] op = "update_company" -> "uc_owner"
      [] op = "db_search_companies" -> "dsc_query"
      [] op = "admin_delete_company" -> "adc_check"
      [] op = "db_update_company" -> "dbuc_owner"
      [] OTHER -> "idle"

\* first step of the router of an operation
StartPc(op) ==
    CASE op = "admin_delete_user" -> "adu_check"
      [] op \in {"delete_product", "delete_commune"} -> "dp_check"
      [] op \in {"update_product", "update_commune"} -> "up_check"
      [] op = "search_companies" -> "sc_validate"
      [] op \in {"create_product", "create_commune"} -> "cp_check"
      [] OTHER -> FirstPc(op)

\* the except clauses of the router of an operation
HttpOf(op, exc) ==
    CASE op = "delete_company" -> 500
      [] op = "create_company" -> 500
      [] op \in {"db_create_company", "db_search_companies",
                  "execute_with_retry", "admin_delete_company",
                  "db_update_company"} -> 0
      [] op \in {"delete_me", "admin_delete_user"} ->
            IF exc = "ValueError" THEN 404 ELSE 500
      [] op \in {"delete_product", "delete_commune"} ->
            IF exc = "PermissionError" THEN 403
            ELSE IF exc = "ValueError" THEN 400 ELSE 500
      [] op = "update_company" -> 500
      [] OTHER -> 500

\* variant: the exception leaves `transaction` without a ROLLBACK, the
\* transaction stays open on the connection with its writes pending
RaiseWithoutRollback(t, exc, msg) ==
    IF exc \in TRANSIENT_ERRORS /\ task[t].attempt < db_retry_attempts
    THEN [task[t] EXCEPT !.pc = FirstPc(task[t].op), !.attempt = @ + 1]
    ELSE [task[t] EXCEPT !.pc = "done",
                         !.result = [http |-> HttpOf(task[t].op, exc),
                                     exc |-> exc, msg |-> msg, count |-> 0]]

\* variant: after the ROLLBACK the retry runs the failed statement again
\* instead of the whole function
RaiseResuming(t, exc, msg) ==
    IF exc \in TRANSIENT_ERRORS /\ task[t].attempt < db_retry_attempts
    THEN [task[t] EXCEPT !.attempt = @ + 1, !.w = NoWrites]
    ELSE [task[t] EXCEPT !.pc = "done", !.tx = "none", !.snap = NoRows,
                         !.stale = NoIds, !.w = NoWrites, !.row = Empty,
                         !.companies = Empty, !.todo = {}, !.count = 0,
                         !.result = [http |-> HttpOf(task[t].op, exc),
                                     exc |-> exc, msg |-> msg, count |-> 0]]

\* an exception leaves `transaction`: ROLLBACK, then db_retry re-runs the
\* function on a transient error while attempts remain, else the router maps it
Raise(t, exc, msg) ==
    IF exc \in TRANSIENT_ERRORS /\ task[t].attempt < db_retry_attempts
    THEN [task[t] EXCEPT !.pc = FirstPc(task[t].op), !.attempt = @ + 1,
                         !.inner = 1, !.tx = "none", !.snap = NoRows, !.stale = NoIds,
                         !.w = NoWrites, !.row = Empty, !.companies = Empty,
                         !.todo = {}, !.count = 0,
                         !.company = IF task[t].op = "db_create_company"
                                     THEN 0 ELSE @]
    ELSE [task[t] EXCEPT !.pc = "done", !.tx = "none", !.snap = NoRows,
                         !.stale = NoIds, !.w = NoWrites, !.row = Empty,
                         !.companies = Empty, !.todo = {}, !.count = 0,
                         !.result = [http |-> HttpOf(task[t].op, exc),
                                     exc |-> exc, msg |-> msg, count |-> 0]]

\* the handler ends with a response
Respond(t, http, exc, msg, count) ==
    [task[t] EXCEPT !.pc = "done", !.tx = "none", !.snap = NoRows,
                    !.stale = NoIds, !.w = NoWrites, !.row = Empty,
                    !.companies = Empty, !.todo = {}, !.count = 0,
                    !.result = [http |-> http, exc |-> exc, msg |-> msg,
                                count |-> count]]


\* gen_random_uuid(): an id no committed or pending row carries
FreshIds ==
    CompanyIds \ (Ids(db, "companies") \cup Ids(db, "companies_deleted")
                  \cup UNION {DOMAIN task[o].w.put["companies"] : o \in Tasks})
Fresh == CHOOSE c \in FreshIds : \A d \in FreshIds : c <= d

\* another open transaction has a pending DELETE of the row
DelLocked(t, tb, id) ==
    \E o \in Tasks \ {t} : Open(o) /\ id \in task[o].w.del[tb]

\* the latest committed rows plus the task's own writes: what the store
\* checks constraints against, whatever the isolation level
Latest(t) == ApplyW(db, task[t].w)

\* INSERT INTO companies must wait: the unique index on user_uuid or a
\* referenced row is held by another open transaction
InsertCompanyWaits(t, u, p, m) ==
    \/ \E o \in Tasks \ {t} :
           /\ Open(o)
           /\ \E c \in DOMAIN task[o].w.put["companies"] :
                  task[o].w.put["companies"][c].user_uuid = u
    \/ \E e \in CompaniesWhere(db, "user_uuid", u) : RowLocked(t, "companies", e)
    \/ DelLocked(t, "users", u)
    \/ DelLocked(t, "products", p)
    \/ DelLocked(t, "communes", m)

\* variant: the companies table without uq_companies_user_uuid
InsertCompanyErrorNoUnique(rows, u, p, m) ==
    IF \/ u \notin Ids(rows, "users")
       \/ p \notin Ids(rows, "products")
       \/ m \notin Ids(rows, "communes")
    THEN "ForeignKeyViolationError"
    ELSE "none"

\* variant: the companies table without its foreign keys
InsertCompanyErrorNoForeignKey(rows, u, p, m) ==
    IF CompaniesWhere(rows, "user_uuid", u) # {}
    THEN "UniqueViolationError"
    ELSE "none"

\* the constraints of the companies table: uq_companies_user_uuid, then the
\* three foreign keys
InsertCompanyError(rows, u, p, m) ==
    IF CompaniesWhere(rows, "user_uuid", u) # {}
    THEN "UniqueViolationError"
    ELSE IF \/ u \notin Ids(rows, "users")
            \/ p \notin Ids(rows, "products")
            \/ m \notin Ids(rows, "communes")
         THEN "ForeignKeyViolationError"
         ELSE "none"

\* ------------------------------------------------------------------ statements

\* INSERT ... VALUES of the company archive: the thirteen columns copied, deleted_at by default
CompanyArchive(r) ==
    [user_uuid |-> r.user_uuid, product_uuid |-> r.product_uuid,
     commune_uuid |-> r.commune_uuid, name |-> r.name, deleted_at |-> "now"]

\* a refresh that only adds and overwrites rows: what the index held for a
\* company that is no longer live stays
RefreshMerging(t) ==
    /\ ~MvLocked(t)
    /\ company_search' =
           [c \in DOMAIN company_search \cup Ids(db, "companies") |->
               IF c \in Ids(db, "companies") THEN ViewRow(db, c)
                                             ELSE company_search[c]]

\* REFRESH MATERIALIZED VIEW outside a transaction: recomputed from the
\* committed rows under the exclusive lock of the view
Refresh(t) ==
    /\ ~MvLocked(t)
    /\ company_search' = View(db)

\* company uuids a client can name: those the store has handed out, and
\* one that names no company (0)
KnownCompanies == Ids(db, "companies") \cup Ids(db, "companies_deleted") \cup {0}

\* a request arrives and a task picks it up
Start(t, op, u, tu, c, p, m, n) ==
    /\ task[t].pc = "idle"
    /\ \A o \in Tasks : o < t => task[o].pc # "idle"
    /\ task' = [task EXCEPT ![t] =
                   [IdleTask EXCEPT !.op = op, !.pc = StartPc(op),
                                    !.requester = u, !.user = tu, !.company = c,
                                    !.product = p, !.commune = m, !.name = n]]
    /\ UNCHANGED <<db, company_search, faults, removed, pool>>

\* a statement of an open transaction, or its COMMIT, fails with a transient
\* error that leaves `transaction`; the SELECT of the nested, wrapped
\* get_company_by_uuid fails into its own wrapper first
Fault(t) ==
    /\ Open(t)
    /\ task[t].pc \notin {"dbcc_fetch", "dbuc_fetch"}
    /\ faults < MaxFaults
    /\ faults' = faults + 1
    /\ task' = [task EXCEPT ![t] = Raise(t, "ConnectionFailureError", "fault")]
    /\ UNCHANGED <<db, company_search, removed, pool>>

\* the positions at which `transaction` awaits COMMIT
CommitPcs == {"dc_commit", "dbcc_commit", "du_commit"}

\* the server commits, and the connection fails before the reply to COMMIT
\* arrives: `transaction` sees a transient error, its ROLLBACK finds nothing
\* to undo, and db_retry runs the function again
CommitFault(t) ==
    /\ task[t].pc \in CommitPcs
    /\ Open(t)
    /\ faults < MaxFaults
    /\ faults' = faults + 1
    /\ db' = ApplyW(db, task[t].w)
    /\ company_search' = IF task[t].w.mvset THEN task[t].w.mv ELSE company_search
    /\ task' = MarkStale([task EXCEPT ![t] =
                             Raise(t, "ConnectionFailureError", "commit_reply_lost")],
                         t, Touched(task[t].w))
    /\ UNCHANGED <<removed, pool>>

\* the positions at which a handler awaits REFRESH MATERIALIZED VIEW
RefreshPcs ==
    {"dc_refresh", "cc_refresh", "uc_refresh", "adu_refresh", "dp_refresh",
     "up_refresh", "du_refresh"}

\* REFRESH MATERIALIZED VIEW fails with an error db_retry does not retry: a
\* router answers through `except Exception`, `transaction` rolls back
RefreshFault(t) ==
    /\ task[t].pc \in RefreshPcs
    /\ faults < MaxFaults
    /\ faults' = faults + 1
    /\ task' = [task EXCEPT ![t] = Raise(t, "PostgresError", "refresh_failed")]
    /\ UNCHANGED <<db, company_search, removed, pool>>

\* ------------------------------------------------------------------ delete_company

start_delete_company(t) ==
    \E u \in Users, c \in KnownCompanies :
        Start(t, "delete_company", u, u, c, "p1", "m1", "bakery")

\* variant: the SELECT also finds a company that is already archived
delete_company_select_archived(t) ==
    /\ task[t].pc = "dc_select"
    /\ LET c == task[t].company
           both == IF c \in Ids(db, "companies") THEN db["companies"]
                                                 ELSE db["companies_deleted"]
           found == /\ c \in DOMAIN both
                    /\ both[c].user_uuid = task[t].requester
       IN  task' = [task EXCEPT ![t] =
                IF found
                THEN [@ EXCEPT !.tx = "rc",
                               !.row = CompanyRow(both[c].user_uuid,
                                                  both[c].product_uuid,
                                                  both[c].commune_uuid,
                                                  both[c].name),
                               !.pc = "dc_insert"]
                ELSE Respond(t, 404, "none", "not_found_or_not_owned", 0)]
    /\ UNCHANGED <<db, company_search, faults, removed, pool>>

\* DB.delete_company_by_uuid: BEGIN; SELECT ... WHERE uuid = $1 AND user_uuid = $2
delete_company_select(t) ==
    /\ task[t].pc = "dc_select"
    /\ LET c == task[t].company
           found == /\ c \in Ids(db, "companies")
                    /\ db["companies"][c].user_uuid = task[t].requester
       IN  task' = [task EXCEPT ![t] =
                IF found
                THEN [@ EXCEPT !.tx = "rc", !.row = db["companies"][c],
                               !.pc = "dc_insert"]
                ELSE Respond(t, 404, "none", "not_found_or_not_owned", 0)]
    /\ UNCHANGED <<db, company_search, faults, removed, pool>>

\* variant: companies_deleted without its primary key
delete_company_insert_no_pkey(t) ==
    /\ task[t].pc = "dc_insert"
    /\ task' = [task EXCEPT ![t] =
            [@ EXCEPT !.w = Put(@, "companies_deleted", task[t].company,
                                CompanyArchive(task[t].row)),
                      !.pc = "dc_delete"]]
    /\ UNCHANGED <<db, company_search, faults, removed, pool>>

\* INSERT INTO companies_deleted: the primary key is checked on the latest rows
delete_company_insert(t) ==
    /\ task[t].pc = "dc_insert"
    /\ ~RowLocked(t, "companies_deleted", task[t].company)
    /\ task' = [task EXCEPT ![t] =
            IF task[t].company \in Ids(db, "companies_deleted")
            THEN Raise(t, "UniqueViolationError", "companies_deleted_pkey")
            ELSE [@ EXCEPT !.w = Put(@, "companies_deleted", task[t].company,
                                     CompanyArchive(task[t].row)),
                           !.pc = "dc_delete"]]
    /\ UNCHANGED <<db, company_search, faults, removed, pool>>

\* variant: the DELETE matches no row, the archive is still written
delete_company_delete_skipped(t) ==
    /\ task[t].pc = "dc_delete"
    /\ task' = [task EXCEPT ![t] = [@ EXCEPT !.pc = "dc_commit"]]
    /\ UNCHANGED <<db, company_search, faults, removed, pool>>

\* DELETE FROM companies WHERE uuid = $1
delete_company_delete(t) ==
    /\ task[t].pc = "dc_delete"
    /\ ~RowLocked(t, "companies", task[t].company)
    /\ task' = [task EXCEPT ![t] =
            [@ EXCEPT !.w = IF task[t].company \in Ids(db, "companies")
                            THEN Del(@, "companies", {task[t].company})
                            ELSE @,
                      !.pc = "dc_commit"]]
    /\ UNCHANGED <<db, company_search, faults, removed, pool>>

\* COMMIT of `transaction`, then the function returns True
delete_company_commit(t) ==
    /\ task[t].pc = "dc_commit"
    /\ db' = ApplyW(db, task[t].w)
    /\ task' = MarkStale([task EXCEPT ![t] =
                             [@ EXCEPT !.tx = "none", !.w = NoWrites,
                                       !.pc = "dc_refresh"]],
                         t, Touched(task[t].w))
    /\ UNCHANGED <<company_search, faults, removed, pool>>

\* the router: REFRESH MATERIALIZED VIEW, then the 200 response
delete_company_refresh(t) ==
    /\ task[t].pc = "dc_refresh"
    /\ Refresh(t)
    /\ task' = [task EXCEPT ![t] = Respond(t, 200, "none", "deleted", 1)]
    /\ removed' = removed \cup {task[t].company}
    /\ UNCHANGED <<db, faults, pool>>

delete_company(t) ==
    \/ start_delete_company(t)
    \/ delete_company_select(t)
    \/ delete_company_insert(t)
    \/ delete_company_delete(t)
    \/ delete_company_commit(t)
    \/ delete_company_refresh(t)

\* ------------------------------------------------------------------ create_company (router)

start_create_company(t) ==
    /\ \E u \in Users, p \in Products, m \in Communes, n \in Names :
           Start(t, "create_company", u, u, 0, p, m, n)

\* variant: the router does not look the product up
create_company_product_unchecked(t) ==
    /\ task[t].pc = "cc_product"
    /\ task' = [task EXCEPT ![t] = [@ EXCEPT !.pc = "cc_commune"]]
    /\ UNCHANGED <<db, company_search, faults, removed, pool>>

\* SELECT 1 FROM products WHERE uuid = $1
create_company_product(t) ==
    /\ task[t].pc = "cc_product"
    /\ task' = [task EXCEPT ![t] =
            IF task[t].product \in Ids(db, "products")
            THEN [@ EXCEPT !.pc = "cc_commune"]
            ELSE Respond(t, 400, "HTTPException", "product_does_not_exist", 0)]
    /\ UNCHANGED <<db, company_search, faults, removed, pool>>

\* SELECT 1 FROM communes WHERE uuid = $1
create_company_commune(t) ==
    /\ task[t].pc = "cc_commune"
    /\ task' = [task EXCEPT ![t] =
            IF task[t].commune \in Ids(db, "communes")
            THEN [@ EXCEPT !.pc = "cc_insert"]
            ELSE Respond(t, 400, "HTTPException", "commune_does_not_exist", 0)]
    /\ UNCHANGED <<db, company_search, faults, removed, pool>>

\* INSERT INTO companies ... RETURNING, its own transaction
create_company_insert(t) ==
    /\ task[t].pc = "cc_insert"
    /\ LET u == task[t].requester
           p == task[t].product
           m == task[t].commune
           err == InsertCompanyError(db, u, p, m)
       IN  /\ ~InsertCompanyWaits(t, u, p, m)
           /\ IF err # "none"
              THEN /\ task' = [task EXCEPT ![t] = Raise(t, err, "insert")]
                   /\ UNCHANGED db
              ELSE /\ FreshIds # {}
                   /\ db' = [db EXCEPT !["companies"] =
                                [c \in DOMAIN @ \cup {Fresh} |->
                                    IF c = Fresh
                                    THEN CompanyRow(u, p, m, task[t].name)
                                    ELSE @[c]]]
                   /\ task' = [task EXCEPT ![t] =
                                  [@ EXCEPT !.company = Fresh, !.pc = "cc_refresh"]]
    /\ UNCHANGED <<company_search, faults, removed, pool>>

\* REFRESH MATERIALIZED VIEW
create_company_refresh(t) ==
    /\ task[t].pc = "cc_refresh"
    /\ Refresh(t)
    /\ task' = [task EXCEPT ![t] = [@ EXCEPT !.pc = "cc_fetch"]]
    /\ UNCHANGED <<db, faults, removed, pool>>

\* SELECT c.*, ... WHERE c.uuid = $1; CompanyResponse(**dict(None)) raises
create_company_fetch(t) ==
    /\ task[t].pc = "cc_fetch"
    /\ task' = [task EXCEPT ![t] =
            IF task[t].company \in Ids(db, "companies")
            THEN Respond(t, 201, "none", "created", 0)
            ELSE Raise(t, "TypeError", "complete_data_is_None")]
    /\ UNCHANGED <<db, company_search, faults, removed, pool>>

create_company(t) ==
    \/ start_create_company(t)
    \/ create_company_product(t)
    \/ create_company_commune(t)
    \/ create_company_insert(t)
    \/ create_company_refresh(t)
    \/ create_company_fetch(t)

\* ------------------------------------------------------------------ update_company (router)

\* the request body: a description, which CompanyUpdate requires, and next
\* to it one provided field, or none
start_update_company(t) ==
    \E u \in Users, c \in KnownCompanies,
       p \in Products \cup {NULL}, m \in Communes \cup {NULL}, n \in Names \cup {NULL} :
        /\ Cardinality({x \in {p, m, n} : x # NULL}) <= 1
        /\ Start(t, "update_company", u, u, c, p, m, n)

\* uuids that no product and no commune carries
UnknownProduct == "p0"
UnknownCommune == "m0"

\* the request body names a product or a commune that does not exist
start_update_company_unknown(t) ==
    \E u \in Users, c \in KnownCompanies,
       pm \in {<<UnknownProduct, NULL>>, <<NULL, UnknownCommune>>} :
        Start(t, "update_company", u, u, c, pm[1], pm[2], NULL)

\* a request body with neither description_es nor description_en:
\* check_at_least_one_description raises and the request is answered 422
\* ahead of the handler
update_company_invalid(t) ==
    /\ task[t].pc = "idle"
    /\ \A o \in Tasks : o < t => task[o].pc # "idle"
    /\ \E u \in Users, c \in KnownCompanies, n \in Names \cup {NULL} :
           task' = [task EXCEPT ![t] =
               [IdleTask EXCEPT !.op = "update_company", !.pc = "done",
                                !.requester = u, !.user = u, !.company = c,
                                !.product = NULL, !.commune = NULL, !.name = n,
                                !.described = FALSE,
                                !.result = [http |-> 422, exc |-> "ValidationError",
                                            msg |-> "description_required",
                                            count |-> 0]]]
    /\ UNCHANGED <<db, company_search, faults, removed, pool>>

\* SELECT user_uuid FROM companies WHERE uuid = $1: 404 when absent, 403 when
\* owned by another user
update_company_owner(t) ==
    /\ task[t].pc = "uc_owner"
    /\ LET c == task[t].company
       IN  task' = [task EXCEPT ![t] =
                IF c \notin Ids(db, "companies")
                THEN Respond(t, 404, "HTTPException", "not_found", 0)
                ELSE IF db["companies"][c].user_uuid # task[t].requester
                THEN Respond(t, 403, "HTTPException", "not_owner", 0)
                ELSE IF task[t].product # NULL THEN [@ EXCEPT !.pc = "uc_product"]
                ELSE IF task[t].commune # NULL THEN [@ EXCEPT !.pc = "uc_commune"]
                ELSE IF task[t].name # NULL \/ task[t].described
                THEN [@ EXCEPT !.pc = "uc_update"]
                ELSE Respond(t, 400, "HTTPException", "no_fields", 0)]
    /\ UNCHANGED <<db, company_search, faults, removed, pool>>

\* SELECT 1 FROM products WHERE uuid = $1
update_company_product(t) ==
    /\ task[t].pc = "uc_product"
    /\ task' = [task EXCEPT ![t] =
            IF task[t].product \notin Ids(db, "products")
            THEN Respond(t, 400, "HTTPException", "product_does_not_exist", 0)
            ELSE IF task[t].commune # NULL THEN [@ EXCEPT !.pc = "uc_commune"]
            ELSE [@ EXCEPT !.pc = "uc_update"]]
    /\ UNCHANGED <<db, company_search, faults, removed, pool>>

\* SELECT 1 FROM communes WHERE uuid = $1
update_company_commune(t) ==
    /\ task[t].pc = "uc_commune"
    /\ task' = [task EXCEPT ![t] =
            IF task[t].commune \notin Ids(db, "communes")
            THEN Respond(t, 400, "HTTPException", "commune_does_not_exist", 0)
            ELSE [@ EXCEPT !.pc = "uc_update"]]
    /\ UNCHANGED <<db, company_search, faults, removed, pool>>

\* variant: SET names every column, so a field that was not provided is
\* overwritten with NULL
UpdatedAll(r, p, m, n) ==
    [r EXCEPT !.product_uuid = p, !.commune_uuid = m, !.name = n]

\* the row UPDATE ... SET writes: the provided fields replace the old ones
Updated(r, p, m, n) ==
    [r EXCEPT !.product_uuid = IF p # NULL THEN p ELSE @,
              !.commune_uuid = IF m # NULL THEN m ELSE @,
              !.name = IF n # NULL THEN n ELSE @]

\* UPDATE companies SET ... WHERE uuid = $n, its own transaction: it waits for
\* the row and for the referenced rows, matches no row when the company is
\* gone, and its foreign keys are checked on the latest rows
update_company_update(t) ==
    /\ task[t].pc = "uc_update"
    /\ LET c == task[t].company
           p == task[t].product
           m == task[t].commune
       IN  /\ ~RowLocked(t, "companies", c)
           /\ p # NULL => ~DelLocked(t, "products", p)
           /\ m # NULL => ~DelLocked(t, "communes", m)
           /\ IF c \notin Ids(db, "companies")
              THEN /\ task' = [task EXCEPT ![t] = [@ EXCEPT !.pc = "uc_refresh"]]
                   /\ UNCHANGED db
              ELSE IF \/ p # NULL /\ p \notin Ids(db, "products")
                      \/ m # NULL /\ m \notin Ids(db, "communes")
              THEN /\ task' = [task EXCEPT ![t] =
                                  Raise(t, "ForeignKeyViolationError", "update")]
                   /\ UNCHANGED db
              ELSE /\ db' = [db EXCEPT !["companies"][c] =
                                Updated(@, p, m, task[t].name)]
                   /\ task' = MarkStale([task EXCEPT ![t] =
                                            [@ EXCEPT !.pc = "uc_refresh"]],
                                        t, [NoIds EXCEPT !["companies"] = {c}])
    /\ UNCHANGED <<company_search, faults, removed, pool>>

\* REFRESH MATERIALIZED VIEW
update_company_refresh(t) ==
    /\ task[t].pc = "uc_refresh"
    /\ Refresh(t)
    /\ task' = [task EXCEPT ![t] = [@ EXCEPT !.pc = "uc_fetch"]]
    /\ UNCHANGED <<db, faults, removed, pool>>

\* SELECT c.*, ... WHERE c.uuid = $1; CompanyResponse(**dict(None)) raises
update_company_fetch(t) ==
    /\ task[t].pc = "uc_fetch"
    /\ task' = [task EXCEPT ![t] =
            IF task[t].company \in Ids(db, "companies")
            THEN Respond(t, 200, "none", "updated", 0)
            ELSE Raise(t, "TypeError", "updated_company_is_None")]
    /\ UNCHANGED <<db, company_search, faults, removed, pool>>

update_company(t) ==
    \/ start_update_company(t)
    \/ update_company_owner(t)
    \/ update_company_product(t)
    \/ update_company_commune(t)
    \/ update_company_update(t)
    \/ update_company_refresh(t)
    \/ update_company_fetch(t)

\* ------------------------------------------------------------------ DB.update_company_by_uuid

\* the arguments: one of product_uuid, commune_uuid and name, or a
\* description alone, or nothing; the uuid may be one no row carries
start_db_update_company(t) ==
    \E u \in Users, c \in KnownCompanies, d \in BOOLEAN,
       p \in {NULL, "p2", UnknownProduct}, m \in {NULL, "m1", UnknownCommune},
       n \in {NULL, "taller"} :
        /\ Cardinality({x \in {p, m, n} : x # NULL}) <= 1
        /\ d => {p, m, n} = {NULL}
        /\ task[t].pc = "idle"
        /\ \A o \in Tasks : o < t => task[o].pc # "idle"
        /\ task' = [task EXCEPT ![t] =
               [IdleTask EXCEPT !.op = "db_update_company", !.pc = "dbuc_owner",
                                !.requester = u, !.user = u, !.company = c,
                                !.product = p, !.commune = m, !.name = n,
                                !.described = d]]
        /\ UNCHANGED <<db, company_search, faults, removed, pool>>

\* the step after the ownership check, or after the product check: the
\* next provided foreign key is verified, then update_fields is tested
AfterOwnerCheck(t, checked) ==
    IF task[t].product # NULL /\ "product" \notin checked
    THEN [task[t] EXCEPT !.tx = "rc", !.pc = "dbuc_product"]
    ELSE IF task[t].commune # NULL
    THEN [task[t] EXCEPT !.tx = "rc", !.pc = "dbuc_commune"]
    ELSE IF task[t].name # NULL \/ task[t].described
    THEN [task[t] EXCEPT !.tx = "rc", !.pc = "dbuc_update"]
    ELSE Raise(t, "ValueError", "no_fields")

\* BEGIN; SELECT user_uuid FROM companies WHERE uuid = $1: ValueError when
\* absent, PermissionError when owned by another user
db_update_company_owner(t) ==
    /\ task[t].pc = "dbuc_owner"
    /\ LET c == task[t].company
       IN  task' = [task EXCEPT ![t] =
                IF c \notin Ids(db, "companies")
                THEN Raise(t, "ValueError", "not_found")
                ELSE IF db["companies"][c].user_uuid # task[t].requester
                THEN Raise(t, "PermissionError", "not_owner")
                ELSE AfterOwnerCheck(t, {})]
    /\ UNCHANGED <<db, company_search, faults, removed, pool>>

\* SELECT 1 FROM products WHERE uuid = $1
db_update_company_product(t) ==
    /\ task[t].pc = "dbuc_product"
    /\ task' = [task EXCEPT ![t] =
            IF task[t].product \notin Ids(db, "products")
            THEN Raise(t, "ValueError", "product_does_not_exist")
            ELSE AfterOwnerCheck(t, {"product"})]
    /\ UNCHANGED <<db, company_search, faults, removed, pool>>

\* SELECT 1 FROM communes WHERE uuid = $1
db_update_company_commune(t) ==
    /\ task[t].pc = "dbuc_commune"
    /\ task' = [task EXCEPT ![t] =
            IF task[t].commune \notin Ids(db, "communes")
            THEN Raise(t, "ValueError", "commune_does_not_exist")
            ELSE [@ EXCEPT !.pc = "dbuc_update"]]
    /\ UNCHANGED <<db, company_search, faults, removed, pool>>

\* UPDATE companies SET ... WHERE uuid = $n inside the transaction: it waits
\* for the row and for the referenced rows, matches no row when the company
\* is gone, and its foreign keys are checked on the latest rows
db_update_company_update(t) ==
    /\ task[t].pc = "dbuc_update"
    /\ LET c == task[t].company
           p == task[t].product
           m == task[t].commune
       IN  /\ ~RowLocked(t, "companies", c)
           /\ p # NULL => ~DelLocked(t, "products", p)
           /\ m # NULL => ~DelLocked(t, "communes", m)
           /\ task' = [task EXCEPT ![t] =
                  IF c \notin Ids(db, "companies")
                  THEN [@ EXCEPT !.pc = "dbuc_fetch"]
                  ELSE IF \/ p # NULL /\ p \notin Ids(db, "products")
                          \/ m # NULL /\ m \notin Ids(db, "communes")
                  THEN Raise(t, "ForeignKeyViolationError", "update")
                  ELSE [@ EXCEPT !.w = Put(@, "companies", c,
                                           Updated(db["companies"][c], p, m,
                                                   task[t].name)),
                                 !.pc = "dbuc_fetch"]]
    /\ UNCHANGED <<db, company_search, faults, removed, pool>>

\* return await DB.get_company_by_uuid(conn, company_uuid): the row as the
\* transaction sees it, None when the UPDATE matched no row
db_update_company_fetch(t) ==
    /\ task[t].pc = "dbuc_fetch"
    /\ task' = [task EXCEPT ![t] =
            [@ EXCEPT !.row = IF task[t].company \in Ids(Reads(t), "companies")
                              THEN Reads(t)["companies"][task[t].company]
                              ELSE Empty,
                      !.pc = "dbuc_commit"]]
    /\ UNCHANGED <<db, company_search, faults, removed, pool>>

\* COMMIT of `transaction`, then the function returns the row or None
db_update_company_commit(t) ==
    /\ task[t].pc = "dbuc_commit"
    /\ db' = ApplyW(db, task[t].w)
    /\ task' = MarkStale([task EXCEPT ![t] =
                             Respond(t, 0, "none",
                                     IF task[t].row = Empty THEN "returned_None"
                                                            ELSE "updated", 0)],
                         t, Touched(task[t].w))
    /\ UNCHANGED <<company_search, faults, removed, pool>>

db_update_company(t) ==
    \/ start_db_update_company(t)
    \/ db_update_company_owner(t)
    \/ db_update_company_product(t)
    \/ db_update_company_commune(t)
    \/ db_update_company_update(t)
    \/ db_update_company_fetch(t)
    \/ db_update_company_commit(t)

\* ------------------------------------------------------------------ DB.create_company

start_db_create_company(t) ==
    /\ \E u \in Users, p \in Products, m \in Communes, n \in Names :
           Start(t, "db_create_company", u, u, 0, p, m, n)

\* BEGIN; SELECT 1 FROM companies WHERE user_uuid = $1
db_create_company_existing(t) ==
    /\ task[t].pc = "dbcc_existing"
    /\ task' = [task EXCEPT ![t] =
            IF CompaniesWhere(db, "user_uuid", task[t].requester) # {}
            THEN Raise(t, "ValueError", "already_have_a_company")
            ELSE [@ EXCEPT !.tx = "rc", !.pc = "dbcc_product"]]
    /\ UNCHANGED <<db, company_search, faults, removed, pool>>

db_create_company_product(t) ==
    /\ task[t].pc = "dbcc_product"
    /\ task' = [task EXCEPT ![t] =
            IF task[t].product \in Ids(db, "products")
            THEN [@ EXCEPT !.pc = "dbcc_commune"]
            ELSE Raise(t, "ValueError", "product_does_not_exist")]
    /\ UNCHANGED <<db, company_search, faults, removed, pool>>

db_create_company_commune(t) ==
    /\ task[t].pc = "dbcc_commune"
    /\ task' = [task EXCEPT ![t] =
            IF task[t].commune \in Ids(db, "communes")
            THEN [@ EXCEPT !.pc = "dbcc_insert"]
            ELSE Raise(t, "ValueError", "commune_does_not_exist")]
    /\ UNCHANGED <<db, company_search, faults, removed, pool>>

\* INSERT INTO companies ... RETURNING uuid, inside the transaction
db_create_company_insert(t) ==
    /\ task[t].pc = "dbcc_insert"
    /\ LET u == task[t].requester
           p == task[t].product
           m == task[t].commune
           err == InsertCompanyError(Latest(t), u, p, m)
       IN  /\ ~InsertCompanyWaits(t, u, p, m)
           /\ IF err # "none"
              THEN task' = [task EXCEPT ![t] = Raise(t, err, "insert")]
              ELSE /\ FreshIds # {}
                   /\ task' = [task EXCEPT ![t] =
                          [@ EXCEPT !.w = Put(@, "companies", Fresh,
                                              CompanyRow(u, p, m, task[t].name)),
                                    !.company = Fresh, !.pc = "dbcc_fetch"]]
    /\ UNCHANGED <<db, company_search, faults, removed, pool>>

\* the SELECT of DB.get_company_by_uuid, called inside the open transaction,
\* fails with a transient error: get_company_by_uuid is itself wrapped by
\* db_retry, so its wrapper runs the SELECT again on the same connection; the
\* transaction has not been rolled back and is in the aborted state
db_create_company_fetch_fault(t) ==
    /\ task[t].pc = "dbcc_fetch"
    /\ task[t].tx = "rc"
    /\ task[t].inner < db_retry_attempts
    /\ faults < MaxFaults
    /\ faults' = faults + 1
    /\ task' = [task EXCEPT ![t] = [@ EXCEPT !.inner = @ + 1, !.tx = "aborted"]]
    /\ UNCHANGED <<db, company_search, removed, pool>>

\* return await DB.get_company_by_uuid(conn, row["uuid"]): the transaction
\* reads its own row; in an aborted transaction every statement fails with
\* InFailedSQLTransactionError, which is not a transient error
db_create_company_fetch(t) ==
    /\ task[t].pc = "dbcc_fetch"
    /\ task' = [task EXCEPT ![t] =
            IF task[t].tx = "aborted"
            THEN Raise(t, "InFailedSQLTransactionError", "get_company_by_uuid")
            ELSE [@ EXCEPT !.row = Reads(t)["companies"][task[t].company],
                           !.pc = "dbcc_commit"]]
    /\ UNCHANGED <<db, company_search, faults, removed, pool>>

\* COMMIT of `transaction`, then the function returns the row
db_create_company_commit(t) ==
    /\ task[t].pc = "dbcc_commit"
    /\ db' = ApplyW(db, task[t].w)
    /\ task' = MarkStale([task EXCEPT ![t] = Respond(t, 0, "none", "created", 0)],
                         t, Touched(task[t].w))
    /\ UNCHANGED <<company_search, faults, removed, pool>>

db_create_company(t) ==
    \/ start_db_create_company(t)
    \/ db_create_company_existing(t)
    \/ db_create_company_product(t)
    \/ db_create_company_commune(t)
    \/ db_create_company_insert(t)
    \/ db_create_company_fetch_fault(t)
    \/ db_create_company_fetch(t)
    \/ db_create_company_commit(t)

\* ------------------------------------------------------------------ delete_me, admin_delete_user

\* INSERT INTO users_deleted (uuid, name, email, hashed_password, created_at):
\* role, email_verified and deleted_at take the defaults of the table
UserArchive(r) ==
    [name |-> r.name, email |-> r.email, hashed_password |-> r.hashed_password,
     role |-> "user", email_verified |-> FALSE, deleted_at |-> "now"]

start_delete_me(t) ==
    \E u \in Users : Start(t, "delete_me", u, u, 0, "p1", "m1", "bakery")

start_admin_delete_user(t) ==
    \E u \in Users, tu \in Users :
        Start(t, "admin_delete_user", u, tu, 0, "p1", "m1", "bakery")

\* the router admin_delete_user before it calls the store
admin_delete_user_check(t) ==
    /\ task[t].pc = "adu_check"
    /\ task' = [task EXCEPT ![t] =
            IF ~is_admin(task[t].requester)
            THEN Respond(t, 403, "HTTPException", "only_admin", 0)
            ELSE IF task[t].user = task[t].requester
                 THEN Respond(t, 400, "HTTPException", "own_admin_account", 0)
                 ELSE [@ EXCEPT !.pc = "du_select_user"]]
    /\ UNCHANGED <<db, company_search, faults, removed, pool>>

\* BEGIN ISOLATION LEVEL SERIALIZABLE; SELECT ... FROM users WHERE uuid = $1
\* (the statement that takes the snapshot of the transaction)
delete_user_select_user(t) ==
    /\ task[t].pc = "du_select_user"
    /\ task' = [task EXCEPT ![t] =
            IF task[t].user \in Ids(db, "users")
            THEN [@ EXCEPT !.tx = "ser", !.snap = db,
                           !.row = db["users"][task[t].user],
                           !.pc = "du_select_companies"]
            ELSE Raise(t, "ValueError", "user_not_found")]
    /\ UNCHANGED <<db, company_search, faults, removed, pool>>

\* variant: the cascade goes from the SELECT straight to the DELETE of the
\* companies, without the INSERTs into companies_deleted
delete_user_select_companies_unarchived(t) ==
    /\ task[t].pc = "du_select_companies"
    /\ LET found == CompaniesWhere(Reads(t), "user_uuid", task[t].user)
       IN  task' = [task EXCEPT ![t] =
               [@ EXCEPT !.companies = [c \in found |-> Reads(t)["companies"][c]],
                         !.todo = {},
                         !.count = Cardinality(found),
                         !.pc = IF found = {} THEN "du_insert_user"
                                              ELSE "du_delete_companies"]]
    /\ UNCHANGED <<db, company_search, faults, removed, pool>>

\* SELECT ... FROM companies WHERE user_uuid = $1
delete_user_select_companies(t) ==
    /\ task[t].pc = "du_select_companies"
    /\ LET found == CompaniesWhere(Reads(t), "user_uuid", task[t].user)
       IN  task' = [task EXCEPT ![t] =
               [@ EXCEPT !.companies = [c \in found |-> Reads(t)["companies"][c]],
                         !.todo = found,
                         !.count = Cardinality(found),
                         !.pc = IF found = {} THEN "du_insert_user"
                                              ELSE "du_insert_company"]]
    /\ UNCHANGED <<db, company_search, faults, removed, pool>>

\* for company in companies: INSERT INTO companies_deleted
delete_user_insert_company(t) ==
    /\ task[t].pc = "du_insert_company"
    /\ LET c == CHOOSE c \in task[t].todo : \A d \in task[t].todo : c <= d
       IN  /\ ~RowLocked(t, "companies_deleted", c)
           /\ task' = [task EXCEPT ![t] =
                  IF c \in Ids(db, "companies_deleted")
                  THEN Raise(t, "UniqueViolationError", "companies_deleted_pkey")
                  ELSE [@ EXCEPT !.w = Put(@, "companies_deleted", c,
                                           CompanyArchive(task[t].companies[c])),
                                 !.todo = @ \ {c},
                                 !.pc = IF task[t].todo = {c}
                                        THEN "du_delete_companies"
                                        ELSE "du_insert_company"]]
    /\ UNCHANGED <<db, company_search, faults, removed, pool>>

\* variant: the DELETE runs on a connection of its own and commits at once
delete_user_delete_companies_autocommit(t) ==
    /\ task[t].pc = "du_delete_companies"
    /\ LET target == CompaniesWhere(db, "user_uuid", task[t].user)
       IN  /\ \A c \in target : ~RowLocked(t, "companies", c)
           /\ db' = [db EXCEPT !["companies"] = [c \in DOMAIN @ \ target |-> @[c]]]
           /\ task' = [task EXCEPT ![t] =
                  [@ EXCEPT !.pc = IF task[t].op = "delete_me"
                                   THEN "du_refresh" ELSE "du_insert_user"]]
    /\ UNCHANGED <<company_search, faults, removed, pool>>

\* DELETE FROM companies WHERE user_uuid = $1: the rows of the snapshot; a
\* row another transaction changed since fails the statement
delete_user_delete_companies(t) ==
    /\ task[t].pc = "du_delete_companies"
    /\ LET target == CompaniesWhere(Reads(t), "user_uuid", task[t].user)
       IN  /\ \A c \in target : ~RowLocked(t, "companies", c)
           /\ task' = [task EXCEPT ![t] =
                  IF target \cap task[t].stale["companies"] # {}
                  THEN Raise(t, "SerializationFailureError", "concurrent_update")
                  ELSE [@ EXCEPT !.w = Del(@, "companies", target),
                                 !.pc = IF task[t].op = "delete_me"
                                        THEN "du_refresh" ELSE "du_insert_user"]]
    /\ UNCHANGED <<db, company_search, faults, removed, pool>>

\* delete_user_by_uuid only: REFRESH MATERIALIZED VIEW inside the
\* transaction; the view query reads what the transaction reads
delete_user_refresh(t) ==
    /\ task[t].pc = "du_refresh"
    /\ ~MvLocked(t)
    /\ task' = [task EXCEPT ![t] =
            [@ EXCEPT !.w = [@ EXCEPT !.mvset = TRUE, !.mv = View(Reads(t))],
                      !.pc = "du_insert_user"]]
    /\ UNCHANGED <<db, company_search, faults, removed, pool>>

\* INSERT INTO users_deleted
delete_user_insert_user(t) ==
    /\ task[t].pc = "du_insert_user"
    /\ ~RowLocked(t, "users_deleted", task[t].user)
    /\ task' = [task EXCEPT ![t] =
            IF task[t].user \in Ids(db, "users_deleted")
            THEN Raise(t, "UniqueViolationError", "users_deleted_pkey")
            ELSE [@ EXCEPT !.w = Put(@, "users_deleted", task[t].user,
                                     UserArchive(task[t].row)),
                           !.pc = "du_delete_user"]]
    /\ UNCHANGED <<db, company_search, faults, removed, pool>>

\* DELETE FROM users WHERE uuid = $1; the foreign key of companies is
\* checked against the latest rows
delete_user_delete_user(t) ==
    /\ task[t].pc = "du_delete_user"
    /\ ~RowLocked(t, "users", task[t].user)
    /\ ~KeyShared(t, "users", task[t].user)
    /\ task' = [task EXCEPT ![t] =
            IF task[t].user \in task[t].stale["users"]
            THEN Raise(t, "SerializationFailureError", "concurrent_update")
            ELSE IF CompaniesWhere(Latest(t), "user_uuid", task[t].user) # {}
                 THEN Raise(t, "ForeignKeyViolationError", "companies_user_uuid_fkey")
                 ELSE [@ EXCEPT !.w = Del(@, "users", {task[t].user}),
                                !.pc = "du_commit"]]
    /\ UNCHANGED <<db, company_search, faults, removed, pool>>

\* COMMIT; delete_me answers at once, admin_delete_user refreshes the view
\* first when companies were deleted
delete_user_commit(t) ==
    /\ task[t].pc = "du_commit"
    /\ db' = ApplyW(db, task[t].w)
    /\ company_search' = IF task[t].w.mvset THEN task[t].w.mv ELSE company_search
    /\ LET n == task[t].count
           answered == [task EXCEPT ![t] =
               IF task[t].op = "admin_delete_user" /\ n > 0
               THEN [@ EXCEPT !.tx = "none", !.w = NoWrites, !.snap = NoRows,
                              !.stale = NoIds, !.pc = "adu_refresh"]
               ELSE Respond(t, 200, "none", "deleted", n)]
       IN  task' = MarkStale(answered, t, Touched(task[t].w))
    /\ removed' = IF task[t].op = "delete_me"
                  THEN removed \cup DOMAIN task[t].companies ELSE removed
    /\ UNCHANGED <<faults, pool>>

\* the router admin_delete_user: REFRESH MATERIALIZED VIEW, then the response
admin_delete_user_refresh(t) ==
    /\ task[t].pc = "adu_refresh"
    /\ Refresh(t)
    /\ task' = [task EXCEPT ![t] = Respond(t, 200, "none", "deleted", task[t].count)]
    /\ removed' = removed \cup DOMAIN task[t].companies
    /\ UNCHANGED <<db, faults, pool>>

delete_user(t) ==
    \/ start_delete_me(t)
    \/ start_admin_delete_user(t)
    \/ admin_delete_user_check(t)
    \/ delete_user_select_user(t)
    \/ delete_user_select_companies(t)
    \/ delete_user_insert_company(t)
    \/ delete_user_delete_companies(t)
    \/ delete_user_refresh(t)
    \/ delete_user_insert_user(t)
    \/ delete_user_delete_user(t)
    \/ delete_user_commit(t)
    \/ admin_delete_user_refresh(t)

\* ------------------------------------------------------------------ delete_product, delete_commune

\* the table and the id a delete_product / delete_commune request names
TableOf(op) == IF op \in {"delete_product", "update_product", "create_product"}
               THEN "products" ELSE "communes"
TargetOf(t) == IF TableOf(task[t].op) = "products" THEN task[t].product
                                                   ELSE task[t].commune

\* INSERT INTO products_deleted (uuid, name_es, name_en, created_at)
ProductArchive(r) ==
    [name_es |-> r.name_es, name_en |-> r.name_en, deleted_at |-> "now"]

\* INSERT INTO communes_deleted (uuid, name, created_at)
CommuneArchive(r) == [name |-> r.name, deleted_at |-> "now"]

start_delete_product(t) ==
    \E u \in Users, p \in Products :
        Start(t, "delete_product", u, u, 0, p, "m1", "bakery")

start_delete_commune(t) ==
    \E u \in Users, m \in Communes :
        Start(t, "delete_commune", u, u, 0, "p1", m, "bakery")

\* the router: its HTTPException(403) is raised inside the try and no
\* clause re-raises it, so `except Exception` answers 500
delete_product_check(t) ==
    /\ task[t].pc = "dp_check"
    /\ task' = [task EXCEPT ![t] =
            IF is_admin(task[t].requester)
            THEN [@ EXCEPT !.pc = "dp_select"]
            ELSE Respond(t, 500, "HTTPException", "only_admin", 0)]
    /\ UNCHANGED <<db, company_search, faults, removed, pool>>

\* BEGIN ISOLATION LEVEL SERIALIZABLE; SELECT ... WHERE uuid = $1
delete_product_select(t) ==
    /\ task[t].pc = "dp_select"
    /\ LET tb == TableOf(task[t].op)
       IN  task' = [task EXCEPT ![t] =
               IF TargetOf(t) \in Ids(db, tb)
               THEN [@ EXCEPT !.tx = "ser", !.snap = db,
                              !.row = db[tb][TargetOf(t)], !.pc = "dp_count"]
               ELSE Raise(t, "ValueError", "not_found")]
    /\ UNCHANGED <<db, company_search, faults, removed, pool>>

\* SELECT COUNT(*) FROM companies WHERE product_uuid = $1
delete_product_count(t) ==
    /\ task[t].pc = "dp_count"
    /\ LET n == Cardinality(CompaniesWhere(Reads(t), Column(TableOf(task[t].op)),
                                           TargetOf(t)))
       IN  task' = [task EXCEPT ![t] =
               IF n > 0
               THEN [Raise(t, "ValueError", "still_using") EXCEPT !.result.count = n]
               ELSE [@ EXCEPT !.pc = "dp_insert"]]
    /\ UNCHANGED <<db, company_search, faults, removed, pool>>

\* variant: the archive INSERT is left out
delete_product_insert_skipped(t) ==
    /\ task[t].pc = "dp_insert"
    /\ task' = [task EXCEPT ![t] = [@ EXCEPT !.pc = "dp_delete"]]
    /\ UNCHANGED <<db, company_search, faults, removed, pool>>

\* INSERT INTO products_deleted
delete_product_insert(t) ==
    /\ task[t].pc = "dp_insert"
    /\ LET sh == ShadowOf(TableOf(task[t].op))
       IN  /\ ~RowLocked(t, sh, TargetOf(t))
           /\ task' = [task EXCEPT ![t] =
                  IF TargetOf(t) \in Ids(db, sh)
                  THEN Raise(t, "UniqueViolationError", "deleted_pkey")
                  ELSE [@ EXCEPT !.w = Put(@, sh, TargetOf(t),
                                           IF task[t].op = "delete_product"
                                           THEN ProductArchive(task[t].row)
                                           ELSE CommuneArchive(task[t].row)),
                                 !.pc = "dp_delete"]]
    /\ UNCHANGED <<db, company_search, faults, removed, pool>>

\* DELETE FROM products WHERE uuid = $1; the foreign key of companies is
\* checked against the latest rows
delete_product_delete(t) ==
    /\ task[t].pc = "dp_delete"
    /\ LET tb == TableOf(task[t].op)
       IN  /\ ~RowLocked(t, tb, TargetOf(t))
           /\ ~KeyShared(t, tb, TargetOf(t))
           /\ task' = [task EXCEPT ![t] =
                  IF TargetOf(t) \in task[t].stale[tb]
                  THEN Raise(t, "SerializationFailureError", "concurrent_update")
                  ELSE IF CompaniesWhere(Latest(t), Column(tb), TargetOf(t)) # {}
                       THEN Raise(t, "ForeignKeyViolationError", "companies_fkey")
                       ELSE [@ EXCEPT !.w = Del(@, tb, {TargetOf(t)}),
                                      !.pc = "dp_commit"]]
    /\ UNCHANGED <<db, company_search, faults, removed, pool>>

\* COMMIT, then the function returns the archived names
delete_product_commit(t) ==
    /\ task[t].pc = "dp_commit"
    /\ db' = ApplyW(db, task[t].w)
    /\ task' = MarkStale([task EXCEPT ![t] =
                             [@ EXCEPT !.tx = "none", !.w = NoWrites,
                                       !.snap = NoRows, !.stale = NoIds,
                                       !.pc = "dp_refresh"]],
                         t, Touched(task[t].w))
    /\ UNCHANGED <<company_search, faults, removed, pool>>

\* the router: REFRESH MATERIALIZED VIEW, then the 200 response
delete_product_refresh(t) ==
    /\ task[t].pc = "dp_refresh"
    /\ Refresh(t)
    /\ task' = [task EXCEPT ![t] = Respond(t, 200, "none", "deleted", 0)]
    /\ UNCHANGED <<db, faults, removed, pool>>

delete_product(t) ==
    \/ start_delete_product(t)
    \/ start_delete_commune(t)
    \/ delete_product_check(t)
    \/ delete_product_select(t)
    \/ delete_product_count(t)
    \/ delete_product_insert(t)
    \/ delete_product_delete(t)
    \/ delete_product_commit(t)
    \/ delete_product_refresh(t)

\* ------------------------------------------------------------------ update_product, update_commune

\* the request body: a new name_es for the product
start_update_product(t) ==
    \E u \in Users, p \in Products :
        Start(t, "update_product", u, u, 0, p, "m1", "pastel")

\* the request body: a new name for the commune, or no name
start_update_commune(t) ==
    \E u \in Users, m \in Communes, n \in {"centro", NULL} :
        Start(t, "update_commune", u, u, 0, "p1", m, n)

\* the router: admin only; its HTTPException is re-raised as it is
update_product_check(t) ==
    /\ task[t].pc = "up_check"
    /\ task' = [task EXCEPT ![t] =
            IF is_admin(task[t].requester)
            THEN [@ EXCEPT !.pc = "up_exists"]
            ELSE Respond(t, 403, "HTTPException", "only_admin", 0)]
    /\ UNCHANGED <<db, company_search, faults, removed, pool>>

\* SELECT 1 FROM products WHERE uuid = $1, then the check of the body
update_product_exists(t) ==
    /\ task[t].pc = "up_exists"
    /\ task' = [task EXCEPT ![t] =
            IF TargetOf(t) \notin Ids(db, TableOf(task[t].op))
            THEN Respond(t, 404, "HTTPException", "not_found", 0)
            ELSE IF task[t].name = NULL
            THEN Respond(t, 400, "HTTPException", "name_required", 0)
            ELSE [@ EXCEPT !.pc = "up_update"]]
    /\ UNCHANGED <<db, company_search, faults, removed, pool>>

\* UPDATE products SET name_es = $1 WHERE uuid = $2 RETURNING ..., its own
\* transaction: it waits for the row and returns no row when it is gone
update_product_update(t) ==
    /\ task[t].pc = "up_update"
    /\ LET tb == TableOf(task[t].op)
           id == TargetOf(t)
           new == IF tb = "products"
                  THEN [db[tb][id] EXCEPT !.name_es = task[t].name]
                  ELSE [db[tb][id] EXCEPT !.name = task[t].name]
       IN  /\ ~RowLocked(t, tb, id)
           /\ IF id \notin Ids(db, tb)
              THEN /\ task' = [task EXCEPT ![t] =
                                  [@ EXCEPT !.row = Empty, !.pc = "up_refresh"]]
                   /\ UNCHANGED db
              ELSE /\ db' = [db EXCEPT ![tb][id] = new]
                   /\ task' = MarkStale([task EXCEPT ![t] =
                                            [@ EXCEPT !.row = new,
                                                      !.pc = "up_refresh"]],
                                        t, [NoIds EXCEPT ![tb] = {id}])
    /\ UNCHANGED <<company_search, faults, removed, pool>>

\* variant: the response is built with no REFRESH MATERIALIZED VIEW before it
update_product_refresh_skipped(t) ==
    /\ task[t].pc = "up_refresh"
    /\ task' = [task EXCEPT ![t] =
            IF task[t].row = Empty
            THEN Raise(t, "TypeError", "row_is_None")
            ELSE Respond(t, 200, "none", "updated", 0)]
    /\ UNCHANGED <<db, company_search, faults, removed, pool>>

\* REFRESH MATERIALIZED VIEW, then the response built from the returned
\* row; ProductResponse(**dict(None)) raises
update_product_refresh(t) ==
    /\ task[t].pc = "up_refresh"
    /\ Refresh(t)
    /\ task' = [task EXCEPT ![t] =
            IF task[t].row = Empty
            THEN Raise(t, "TypeError", "row_is_None")
            ELSE Respond(t, 200, "none", "updated", 0)]
    /\ UNCHANGED <<db, faults, removed, pool>>

update_product(t) ==
    \/ start_update_product(t)
    \/ start_update_commune(t)
    \/ update_product_check(t)
    \/ update_product_exists(t)
    \/ update_product_update(t)
    \/ update_product_refresh(t)

\* ------------------------------------------------------------------ create_product, create_commune

\* uuids gen_random_uuid() hands to new products and communes
NewProducts == {"p3", "p4"}
NewCommunes == {"m2", "m3"}

\* the uuid the INSERT gives the new row: one no row of the table or of its
\* shadow table carries
NewId(tb) ==
    LET ids == IF tb = "products" THEN NewProducts ELSE NewCommunes
        free == ids \ (Ids(db, tb) \cup Ids(db, ShadowOf(tb)))
    IN  IF "p3" \in free THEN "p3"
        ELSE IF "m2" \in free THEN "m2"
        ELSE CHOOSE id \in free : TRUE

\* the request body: name_es and name_en of the product, both the same word
start_create_product(t) ==
    \E u \in Users, n \in {"pan", "queso"} :
        Start(t, "create_product", u, u, 0, "p1", "m1", n)

\* the request body: the name of the commune
start_create_commune(t) ==
    \E u \in Users, n \in {"m1", "centro"} :
        Start(t, "create_commune", u, u, 0, "p1", "m1", n)

\* the router: admin only; its HTTPException is re-raised as it is
create_product_check(t) ==
    /\ task[t].pc = "cp_check"
    /\ task' = [task EXCEPT ![t] =
            IF is_admin(task[t].requester)
            THEN [@ EXCEPT !.pc = "cp_existing"]
            ELSE Respond(t, 403, "HTTPException", "only_admin", 0)]
    /\ UNCHANGED <<db, company_search, faults, removed, pool>>

\* SELECT 1 FROM products WHERE name_en = $1 OR name_es = $2
\* SELECT 1 FROM communes WHERE name = $1
create_product_existing(t) ==
    /\ task[t].pc = "cp_existing"
    /\ LET tb == TableOf(task[t].op)
           existing ==
               \E id \in Ids(db, tb) :
                   IF tb = "products"
                   THEN \/ db[tb][id].name_en = task[t].name
                        \/ db[tb][id].name_es = task[t].name
                   ELSE db[tb][id].name = task[t].name
       IN  task' = [task EXCEPT ![t] =
               IF existing
               THEN Respond(t, 409, "HTTPException", "already_exists", 0)
               ELSE [@ EXCEPT !.pc = "cp_insert"]]
    /\ UNCHANGED <<db, company_search, faults, removed, pool>>

\* INSERT INTO products (name_es, name_en) ... RETURNING, in its own
\* transaction, then the 201 response built from the returned row
create_product_insert(t) ==
    /\ task[t].pc = "cp_insert"
    /\ LET tb == TableOf(task[t].op)
           id == NewId(tb)
           row == IF tb = "products"
                  THEN [name_es |-> task[t].name, name_en |-> task[t].name]
                  ELSE [name |-> task[t].name]
       IN  /\ db' = [db EXCEPT ![tb] = [k \in DOMAIN @ \cup {id} |->
                                           IF k = id THEN row ELSE @[k]]]
           /\ task' = [task EXCEPT ![t] =
                  [Respond(t, 201, "none", "created", 0)
                      EXCEPT !.product = IF tb = "products" THEN id ELSE @,
                             !.commune = IF tb = "communes" THEN id ELSE @]]
    /\ UNCHANGED <<company_search, faults, removed, pool>>

create_product(t) ==
    \/ start_create_product(t)
    \/ start_create_commune(t)
    \/ create_product_check(t)
    \/ create_product_existing(t)
    \/ create_product_insert(t)

\* ------------------------------------------------------------------ admin_delete_company_by_uuid

start_admin_delete_company(t) ==
    \E u \in Users, c \in KnownCompanies :
        Start(t, "admin_delete_company", u, u, c, "p1", "m1", "bakery")

\* if not DB.is_admin(admin_email): raise PermissionError, ahead of
\* `async with transaction(conn)`
admin_delete_company_check(t) ==
    /\ task[t].pc = "adc_check"
    /\ task' = [task EXCEPT ![t] =
            IF is_admin(task[t].requester)
            THEN [@ EXCEPT !.pc = "adc_select"]
            ELSE Raise(t, "PermissionError", "only_admin")]
    /\ UNCHANGED <<db, company_search, faults, removed, pool>>

\* variant: the SELECT keeps the owner condition of delete_company_by_uuid
admin_delete_company_select_owned(t) ==
    /\ task[t].pc = "adc_select"
    /\ LET c == task[t].company
           found == /\ c \in Ids(db, "companies")
                    /\ db["companies"][c].user_uuid = task[t].requester
       IN  task' = [task EXCEPT ![t] =
                IF found
                THEN [@ EXCEPT !.tx = "rc", !.row = db["companies"][c],
                               !.pc = "adc_insert"]
                ELSE Raise(t, "ValueError", "not_found")]
    /\ UNCHANGED <<db, company_search, faults, removed, pool>>

\* BEGIN; SELECT ... FROM companies WHERE uuid = $1; ValueError when no row
admin_delete_company_select(t) ==
    /\ task[t].pc = "adc_select"
    /\ LET c == task[t].company
       IN  task' = [task EXCEPT ![t] =
                IF c \in Ids(db, "companies")
                THEN [@ EXCEPT !.tx = "rc", !.row = db["companies"][c],
                               !.pc = "adc_insert"]
                ELSE Raise(t, "ValueError", "not_found")]
    /\ UNCHANGED <<db, company_search, faults, removed, pool>>

\* INSERT INTO companies_deleted: the primary key is checked on the latest rows
admin_delete_company_insert(t) ==
    /\ task[t].pc = "adc_insert"
    /\ ~RowLocked(t, "companies_deleted", task[t].company)
    /\ task' = [task EXCEPT ![t] =
            IF task[t].company \in Ids(db, "companies_deleted")
            THEN Raise(t, "UniqueViolationError", "companies_deleted_pkey")
            ELSE [@ EXCEPT !.w = Put(@, "companies_deleted", task[t].company,
                                     CompanyArchive(task[t].row)),
                           !.pc = "adc_delete"]]
    /\ UNCHANGED <<db, company_search, faults, removed, pool>>

\* DELETE FROM companies WHERE uuid = $1
admin_delete_company_delete(t) ==
    /\ task[t].pc = "adc_delete"
    /\ ~RowLocked(t, "companies", task[t].company)
    /\ task' = [task EXCEPT ![t] =
            [@ EXCEPT !.w = IF task[t].company \in Ids(db, "companies")
                            THEN Del(@, "companies", {task[t].company})
                            ELSE @,
                      !.pc = "adc_commit"]]
    /\ UNCHANGED <<db, company_search, faults, removed, pool>>

\* the function returns uuid and name of the company, then COMMIT
admin_delete_company_commit(t) ==
    /\ task[t].pc = "adc_commit"
    /\ db' = ApplyW(db, task[t].w)
    /\ task' = MarkStale([task EXCEPT ![t] =
                             Respond(t, 0, "none", "deleted", 1)],
                         t, Touched(task[t].w))
    /\ UNCHANGED <<company_search, faults, removed, pool>>

admin_delete_company(t) ==
    \/ start_admin_delete_company(t)
    \/ admin_delete_company_check(t)
    \/ admin_delete_company_select(t)
    \/ admin_delete_company_insert(t)
    \/ admin_delete_company_delete(t)
    \/ admin_delete_company_commit(t)

\* ------------------------------------------------------------------ specification

\* the store after the migrations, create_admin, the sign-ups and the
\* catalogue set-up; `owners` are the users that already own a company
OwnerOf(c) == IF c = 1 THEN "u1" ELSE "u2"
InitDb(owners) ==
    [tb \in Tables |->
        CASE tb = "users" -> [u \in Users |-> UserRow(u)]
          [] tb = "products" -> [p \in Products |-> ProductRow(p)]
          [] tb = "communes" -> [m \in Communes |-> CommuneRow(m)]
          [] tb = "companies" ->
                [c \in {d \in {1, 2} : OwnerOf(d) \in owners} |->
                    CompanyRow(OwnerOf(c), "p1", "m1", "bakery")]
          [] OTHER -> Empty]

Init ==
    /\ \E owners \in SUBSET Users :
           /\ db = InitDb(owners)
           /\ company_search = View(InitDb(owners))
    /\ task = [t \in Tasks |-> IdleTask]
    /\ faults = 0
    /\ removed = {}
    /\ pool = [k \in Conns |-> {}]

Next ==
    \E t \in Tasks :
        \/ delete_company(t)
        \/ create_company(t)
        \/ update_company(t)
        \/ db_create_company(t)
        \/ delete_user(t)
        \/ delete_product(t)
        \/ Fault(t)

Spec == Init /\ [][Next]_vars

\* the operations that write what the index shows, each with its refresh,
\* and the failures of the refresh
NextIndex ==
    \E t \in Tasks :
        \/ create_company(t)
        \/ update_company(t)
        \/ delete_company(t)
        \/ delete_user(t)
        \/ update_product(t)
        \/ RefreshFault(t)

SpecIndex == Init /\ [][NextIndex]_vars

\* the operations of the admin: the catalogue of products and communes, and
\* the removal of any company, next to the owner's delete_company
NextAdmin ==
    \E t \in Tasks :
        \/ create_product(t)
        \/ update_product(t)
        \/ delete_product(t)
        \/ admin_delete_company(t)
        \/ delete_company(t)
        \/ Fault(t)
        \/ RefreshFault(t)

SpecAdmin == Init /\ [][NextAdmin]_vars

\* update_company of the router and of class DB, with every kind of request
NextUpdate ==
    \E t \in Tasks :
        \/ update_company(t)
        \/ update_company_invalid(t)
        \/ start_update_company_unknown(t)
        \/ db_update_company(t)
        \/ Fault(t)

SpecUpdate == Init /\ [][NextUpdate]_vars


\* the store functions under db_retry, with failures of statements and
\* with connection failures after the server committed
NextOnce ==
    \E t \in Tasks :
        \/ db_create_company(t)
        \/ delete_company(t)
        \/ delete_user(t)
        \/ Fault(t)
        \/ CommitFault(t)

SpecOnce == Init /\ [][NextOnce]_vars

\* ------------------------------------------------------------------ get_db_connection

\* the task holds a connection of the pool
Borrowed(t) == \E k \in Conns : t \in pool[k]

\* async with pool_manager.write_pool.acquire() as conn: the request waits
\* for a connection no request holds and takes it
get_db_connection_acquire(t) ==
    /\ task[t].pc = "idle"
    /\ ~Borrowed(t)
    /\ \E k \in Conns :
           /\ pool[k] = {}
           /\ pool' = [pool EXCEPT ![k] = @ \cup {t}]
    /\ UNCHANGED <<db, company_search, task, faults, removed>>

\* the request is cancelled while it awaits a statement: CancelledError is
\* not an Exception, so the `except Exception` clauses of `transaction`
\* and of the handler do not run, and neither COMMIT nor ROLLBACK is sent
Cancel(t) ==
    /\ Borrowed(t)
    /\ task[t].pc \notin {"idle", "done", "cancelled"}
    /\ task' = [task EXCEPT ![t] =
            [@ EXCEPT !.pc = "cancelled",
                      !.result = [http |-> 0, exc |-> "CancelledError",
                                  msg |-> "cancelled", count |-> 0]]]
    /\ UNCHANGED <<db, company_search, faults, removed, pool>>

\* the exit of `async with ... acquire()` when the request has ended: the
\* connection goes back to the pool, which resets it (a transaction still
\* open on it is rolled back) before another request can take it
get_db_connection_release(t) ==
    /\ Borrowed(t)
    /\ task[t].pc \in {"done", "cancelled"}
    /\ pool' = [k \in Conns |-> pool[k] \ {t}]
    /\ task' = [task EXCEPT ![t] =
            [@ EXCEPT !.tx = "none", !.w = NoWrites, !.snap = NoRows,
                      !.stale = NoIds]]
    /\ UNCHANGED <<db, company_search, faults, removed>>

\* requests that borrow their connection from the pool: delete_company with
\* its transaction, failures and cancellation
NextPool ==
    \E t \in Tasks :
        \/ get_db_connection_acquire(t)
        \/ Borrowed(t) /\ delete_company(t)
        \/ Borrowed(t) /\ Fault(t)
        \/ Cancel(t)
        \/ get_db_connection_release(t)

SpecPool == Init /\ [][NextPool]_vars


\* ------------------------------------------------------------------ search

\* a query string is a sequence of tokens: words, and single whitespace
\* characters between, before or after them
SPACE == " "
QueryWords == {"pan", "car", "de", "bakery"}
MaxQueryLen == 3
Queries ==
    {q \in UNION {[1..n -> QueryWords \cup {SPACE}] : n \in 0..MaxQueryLen} :
        \A i \in 1..(Len(q) - 1) : q[i] = SPACE \/ q[i + 1] = SPACE}
Langs == {"es", "en", "fr"}

\* what a text search configuration makes of a word: the stem its snowball
\* stemmer produces, or STOP for a stop word of the configuration
STOP == "<stop>"
Lexeme(cfg, w) ==
    CASE cfg = "spanish" /\ w = "de" -> STOP
      [] cfg = "spanish" /\ w = "taller" -> "tall"
      [] cfg = "spanish" /\ w = "auto" -> "aut"
      [] cfg = "spanish" /\ w = "bread" -> "bre"
      [] cfg = "spanish" /\ w = "centro" -> "centr"
      [] cfg = "english" /\ w = "bakery" -> "bakeri"
      [] OTHER -> w

\* to_tsvector(cfg, text): the lexemes of the words of the text, coalesce
\* having replaced a NULL column by ''
to_tsvector(cfg, words) == {Lexeme(cfg, w) : w \in words \ {NULL}} \ {STOP}

\* the spanish part of search_vector
spanish_vector(r) ==
    to_tsvector("spanish", {r.company_name, r.product_name_es, r.commune_name,
                            r.user_name, r.user_email})

\* the english part of search_vector
english_vector(r) ==
    to_tsvector("english", {r.company_name, r.product_name_en})

\* search_vector: the spanish vector over company name, product name_es,
\* commune, user name and email, concatenated with the english vector over
\* company name and product name_en
search_vector(r) == spanish_vector(r) \cup english_vector(r)

IsTerm(x) == x # SPACE

\* str.split(): the words of the string
split(q) == SelectSeq(q, IsTerm)

\* sep.join(terms): the terms with the separator between each two
join(sep, terms) ==
    [i \in 1..(IF Len(terms) = 0 THEN 0 ELSE 2 * Len(terms) - 1) |->
        IF i % 2 = 1 THEN terms[(i + 1) \div 2] ELSE sep]

\* to_tsquery(cfg, text): operands at the odd positions, operators between
\* them; stop words drop out of the query
to_tsquery(cfg, text) ==
    [operands |-> {Lexeme(cfg, text[i]) :
                      i \in {j \in 1..Len(text) : j % 2 = 1}} \ {STOP},
     operators |-> {text[i] : i \in {j \in 1..Len(text) : j % 2 = 0}}]

\* vector @@ query; a query without lexemes matches nothing
Matches(vector, query) ==
    /\ query.operands # {}
    /\ IF "|" \in query.operators THEN query.operands \cap vector # {}
                                  ELSE query.operands \subseteq vector

lang_config(lang) == IF lang = "es" THEN "spanish" ELSE "english"

\* ' | '.join(q.split()): any term instead of every term
formatted_query_any(q) == join("|", split(q))

\* formatted_query = ' & '.join(q.split())
formatted_query(q) == join("&", split(q))

\* the SELECT of search_companies: the rows of the view whose search_vector
\* matches to_tsquery(lang_config, formatted_query)
search_companies(view, q, lang) ==
    LET query == to_tsquery(lang_config(lang), formatted_query(q))
    IN  {c \in DOMAIN view : Matches(search_vector(view[c]), query)}

\* the same SELECT over the live tables joined at the time of the search
search_result_live(q, lang) ==
    LET live == View(db)
    IN  [c \in search_companies(live, q, lang) |-> live[c]]

\* db.fetch(search_query, ...): the rows of fastapi.company_search the SELECT
\* returns in the current state
search_result(q, lang) ==
    [c \in search_companies(company_search, q, lang) |-> company_search[c]]

SearchOps == {"search_companies", "db_search_companies"}

\* searches in flight or answered at a time
MaxSearches == 1

StartSearch(t, op, q, lang) ==
    /\ task[t].pc = "idle"
    /\ \A o \in Tasks : o < t => task[o].pc # "idle"
    /\ Cardinality({o \in Tasks : task[o].op \in SearchOps}) < MaxSearches
    /\ task' = [task EXCEPT ![t] =
                   [IdleTask EXCEPT !.op = op, !.pc = StartPc(op),
                                    !.q = q, !.lang = lang]]
    /\ UNCHANGED <<db, company_search, faults, removed, pool>>

\* GET /search?q=...&lang=...
start_search_companies(t) == \E q \in Queries, lang \in Langs :
    StartSearch(t, "search_companies", q, lang)

\* q: Query(..., min_length=1), lang: Query("es", regex="^(es|en)$"): a
\* parameter that fails its constraint is answered 422 before the handler runs
search_companies_validate(t) ==
    /\ task[t].pc = "sc_validate"
    /\ task' = [task EXCEPT ![t] =
            IF Len(task[t].q) < 1 \/ task[t].lang \notin {"es", "en"}
            THEN Respond(t, 422, "RequestValidationError", "rejected", 0)
            ELSE [@ EXCEPT !.pc = "sc_query"]]
    /\ UNCHANGED <<db, company_search, faults, removed, pool>>

\* rows = await db.fetch(search_query, lang_config, formatted_query, ...),
\* the results built from the rows and returned
search_companies_query(t) ==
    /\ task[t].pc = "sc_query"
    /\ ~MvLocked(t)
    /\ LET rows == search_result(task[t].q, task[t].lang)
       IN  task' = [task EXCEPT ![t] =
               [Respond(t, 200, "none", "found", Cardinality(DOMAIN rows))
                    EXCEPT !.companies = rows]]
    /\ UNCHANGED <<db, company_search, faults, removed, pool>>

search_companies_handler(t) ==
    \/ start_search_companies(t)
    \/ search_companies_validate(t)
    \/ search_companies_query(t)

\* DB.search_companies(conn, query, lang)
start_db_search_companies(t) == \E q \in Queries, lang \in Langs :
    StartSearch(t, "db_search_companies", q, lang)

\* rows = await conn.fetch(search_query, lang_config, formatted_query, ...)
db_search_companies_query(t) ==
    /\ task[t].pc = "dsc_query"
    /\ ~MvLocked(t)
    /\ task' = [task EXCEPT ![t] =
            [@ EXCEPT !.companies = search_result(task[t].q, task[t].lang),
                      !.pc = "dsc_build"]]
    /\ UNCHANGED <<db, company_search, faults, removed, pool>>

\* for row in rows: row[f"company_description_{lang}"] is a KeyError for a
\* language the view has no column for
db_search_companies_build(t) ==
    /\ task[t].pc = "dsc_build"
    /\ LET rows == task[t].companies
       IN  task' = [task EXCEPT ![t] =
               IF rows # Empty /\ task[t].lang \notin {"es", "en"}
               THEN Raise(t, "KeyError", "company_description")
               ELSE [Respond(t, 0, "none", "found", Cardinality(DOMAIN rows))
                        EXCEPT !.companies = rows]]
    /\ UNCHANGED <<db, company_search, faults, removed, pool>>

db_search_companies(t) ==
    \/ start_db_search_companies(t)
    \/ db_search_companies_query(t)
    \/ db_search_companies_build(t)

\* searches, next to renames of products and communes with their refresh
NextSearch ==
    \E t \in Tasks :
        \/ search_companies_handler(t)
        \/ db_search_companies(t)
        \/ update_product(t)

SpecSearch == Init /\ [][NextSearch]_vars

\* ------------------------------------------------------------------ properties

CascadeOps == {"delete_me", "admin_delete_user"}
CreateOps == {"create_company", "db_create_company"}
CascadeTables == {"users", "companies", "users_deleted", "companies_deleted"}

\* task t takes the step
StepOf(t) == task'[t].pc # task[t].pc

\* outcome (a): the user and every company the user owned are archived and
\* removed, and no other row of the four tables changes
FullCascade(u) ==
    LET owned == CompaniesWhere(db, "user_uuid", u)
    IN  /\ u \in Ids(db, "users")
        /\ Ids(db', "users") = Ids(db, "users") \ {u}
        /\ Ids(db', "users_deleted") = Ids(db, "users_deleted") \cup {u}
        /\ Ids(db', "companies") = Ids(db, "companies") \ owned
        /\ Ids(db', "companies_deleted") = Ids(db, "companies_deleted") \cup owned
        /\ CompaniesWhere(db', "user_uuid", u) = {}
        /\ \A tb \in CascadeTables : \A id \in Ids(db, tb) \cap Ids(db', tb) :
               db'[tb][id] = db[tb][id]

\* C1: every step of delete_user_by_uuid / admin_delete_user_by_uuid, a failed
\* or rolled-back one included, either leaves users, companies and both
\* shadow tables as they were or performs the whole cascade at once
C1_CascadeAtomic ==
    [][\A t \in Tasks :
          (task[t].op \in CascadeOps /\ StepOf(t)) =>
              \/ \A tb \in CascadeTables : db'[tb] = db[tb]
              \/ FullCascade(task[t].user)]_vars

\* a cascade over a user with one company succeeded on its second attempt,
\* after a failure injected into the first
C1_Witness ==
    \E t \in Tasks :
        /\ task[t].op \in CascadeOps
        /\ task[t].pc = "done"
        /\ task[t].result.msg = "deleted"
        /\ task[t].result.count = 1
        /\ task[t].attempt = 2

\* C2: an id held by a live table or its shadow table is held by one of the
\* two after every step
C2_NoRowLost ==
    [][\A tb \in LiveTables :
          Ids(db, tb) \cup Ids(db, ShadowOf(tb))
              \subseteq Ids(db', tb) \cup Ids(db', ShadowOf(tb))]_vars

\* a user and the user's company have been moved to the shadow tables while
\* another company was created
C2_Witness ==
    /\ Ids(db, "users_deleted") # {}
    /\ Ids(db, "companies_deleted") # {}
    /\ \E t \in Tasks :
           /\ task[t].op \in CreateOps
           /\ task[t].result.msg = "created"
           /\ task[t].company \in Ids(db, "companies")

\* C3: no id is in a live table and in its shadow table at once
C3_LiveShadowDisjoint ==
    \A tb \in LiveTables : Ids(db, tb) \cap Ids(db, ShadowOf(tb)) = {}

\* a product or a commune has been archived, and a company as well
C3_Witness ==
    \E tb \in {"products", "communes"} :
        /\ Ids(db, ShadowOf(tb)) # {}
        /\ Ids(db, "companies_deleted") # {}

\* the shadow row has the columns of the live row, with the same values, and
\* deleted_at
SameButDeletedAt(live, shadow) ==
    /\ DOMAIN shadow = DOMAIN live \cup {"deleted_at"}
    /\ \A f \in DOMAIN live : shadow[f] = live[f]

\* C4: a row that moves to a shadow table leaves the live table and arrives
\* with every column at the value it had
C4_ArchiveIdentical ==
    [][\A tb \in LiveTables :
          \A id \in (Ids(db, tb) \cap Ids(db', ShadowOf(tb))) \ Ids(db, ShadowOf(tb)) :
              /\ id \notin Ids(db', tb)
              /\ SameButDeletedAt(db[tb][id], db'[ShadowOf(tb)][id])]_vars

\* the response or exception is the conflict kind: a ValueError naming the
\* business rule, which routers answer with its reason
IsConflict(r) == r.exc = "ValueError"

\* C5: of two create_company calls of one owner of which one succeeded, the
\* other ended with a conflict
C5_LoserGetsConflict ==
    \A t1, t2 \in Tasks :
        (/\ t1 # t2
         /\ task[t1].op \in CreateOps /\ task[t2].op \in CreateOps
         /\ task[t1].requester = task[t2].requester
         /\ task[t1].pc = "done" /\ task[t2].pc = "done"
         /\ task[t1].result.msg = "created")
        => /\ task[t2].result.msg # "created"
           /\ IsConflict(task[t2].result)

\* C6: each user owns at most one live company
C6_OneCompanyPerUser ==
    \A u \in Users : Cardinality(CompaniesWhere(db, "user_uuid", u)) <= 1

\* two create_company calls of one owner ran, and the constraint of the
\* table refused the second
C6_Witness ==
    \E t1, t2 \in Tasks :
        /\ task[t1].op \in CreateOps /\ task[t2].op \in CreateOps
        /\ task[t1].requester = task[t2].requester
        /\ task[t1].result.msg = "created"
        /\ task[t2].result.exc = "UniqueViolationError"

DeleteEntityOps == {"delete_product", "delete_commune"}

\* C7: when an admin's delete_product / delete_commune ends while a live
\* company references the entity, it ends with the conflict that carries the
\* count (>= 1) and changes no table; when it commits, the entity had no
\* reference and is archived
C7_BlockedDeleteConflicts ==
    [][\A t \in Tasks :
          (/\ task[t].op \in DeleteEntityOps
           /\ is_admin(task[t].requester)
           /\ StepOf(t))
          => LET tb == TableOf(task[t].op)
                 refs == CompaniesWhere(db, Column(tb), TargetOf(t))
             IN  /\ (task'[t].pc = "done" /\ refs # {}) =>
                        /\ IsConflict(task'[t].result)
                        /\ task'[t].result.count >= 1
                        /\ db' = db
                 /\ db' # db =>
                        /\ refs = {}
                        /\ TargetOf(t) \in Ids(db', ShadowOf(tb))
                        /\ TargetOf(t) \notin Ids(db', tb)]_vars

\* C8: every live company references a live product, a live commune and a
\* live owner
C8_ReferentialIntegrity ==
    \A c \in Ids(db, "companies") :
        /\ db["companies"][c].user_uuid \in Ids(db, "users")
        /\ db["companies"][c].product_uuid \in Ids(db, "products")
        /\ db["companies"][c].commune_uuid \in Ids(db, "communes")

\* a delete of a product, a commune or a user lost the race against a
\* create_company or update_company that references it
C8_Witness ==
    \E t \in Tasks :
        /\ task[t].op \in DeleteEntityOps \cup CascadeOps
        /\ task[t].result.exc = "ForeignKeyViolationError"

\* C9: at the moment create_company answers 201, with the new company still
\* as it was created, a search for its name returns it
C9_ReadYourWrites ==
    [][\A t \in Tasks :
          (/\ task[t].op = "create_company"
           /\ StepOf(t)
           /\ task'[t].pc = "done"
           /\ task'[t].result.http = 201
           /\ db'["companies"][task[t].company] =
                  CompanyRow(task[t].requester, task[t].product,
                             task[t].commune, task[t].name))
          => task[t].company \in
                 search_companies(company_search', <<task[t].name>>, "es")]_vars

\* C10: no search returns a company whose removal was answered with success
C10_RemovedNotSearchable ==
    \A c \in removed :
        \A n \in Names, lang \in {"es", "en"} :
            c \notin search_companies(company_search, <<n>>, lang)

\* ------------------------------------------------------------------ index freshness

UpdateOps == {"update_company", "update_product", "update_commune"}

\* the step with which an update operation answers 200
UpdateReturns(t) ==
    /\ task[t].op \in UpdateOps
    /\ StepOf(t)
    /\ task'[t].pc = "done"
    /\ task'[t].result.http = 200

\* the index row of company c carries what the request of task t wrote, as
\* far as the rows still hold it (a product or commune a company was moved to
\* counts while it has not been renamed)
Carries(t, rows, view, c) ==
    LET r == rows["companies"][c]
        p == r.product_uuid
        m == r.commune_uuid
    IN  CASE task[t].op = "update_company" ->
               /\ c \in DOMAIN view
               /\ (task[t].name # NULL /\ r.name = task[t].name)
                      => view[c].company_name = task[t].name
               /\ (task[t].product # NULL /\ p = task[t].product
                       /\ p \in Ids(rows, "products")
                       /\ rows["products"][p] = ProductRow(p))
                      => view[c].product_name_es = ProductRow(p).name_es
               /\ (task[t].commune # NULL /\ m = task[t].commune
                       /\ m \in Ids(rows, "communes")
                       /\ rows["communes"][m] = CommuneRow(m))
                      => view[c].commune_name = CommuneRow(m).name
          [] task[t].op = "update_product" ->
               (/\ p = task[t].product
                /\ p \in Ids(rows, "products")
                /\ rows["products"][p].name_es = task[t].name)
                   => c \in DOMAIN view /\ view[c].product_name_es = task[t].name
          [] OTHER ->
               (/\ m = task[t].commune
                /\ m \in Ids(rows, "communes")
                /\ rows["communes"][m].name = task[t].name)
                   => c \in DOMAIN view /\ view[c].commune_name = task[t].name

\* the companies the update of task t affects
Affected(t, rows) ==
    IF task[t].op = "update_company"
    THEN {task[t].company} \cap Ids(rows, "companies")
    ELSE Ids(rows, "companies")

\* C11: when update_company, update_product or update_commune answers 200, the
\* index row of every affected company carries the new company fields, product
\* name or commune name
C11_IndexFreshAtReturn ==
    [][\A t \in Tasks :
          UpdateReturns(t) =>
              \A c \in Affected(t, db') : Carries(t, db', company_search', c)]_vars

\* the steps of C11 taken by update_product and update_commune alone
C11_ProductCommuneFresh ==
    [][\A t \in Tasks :
          (UpdateReturns(t) /\ task[t].op # "update_company") =>
              \A c \in Affected(t, db') : Carries(t, db', company_search', c)]_vars

\* the exceptions a failing INSERT, UPDATE or DELETE raises
WriteErrors ==
    {"UniqueViolationError", "ForeignKeyViolationError", "PostgresError"}

\* the statement before the refresh of task t wrote a row: the UPDATE of
\* update_company, update_product and update_commune may have matched none
HasWritten(t) ==
    CASE task[t].op = "update_company" ->
             task[t].company \in Ids(db, "companies")
      [] task[t].op \in {"update_product", "update_commune"} ->
             task[t].row # Empty
      [] OTHER -> TRUE

\* the step on which the refresh of task t fails
RefreshFails(t) ==
    /\ StepOf(t)
    /\ HasWritten(t)
    /\ task'[t].pc = "done"
    /\ task'[t].result.msg = "refresh_failed"

\* C12: when the refresh fails after the operation has written, what it wrote
\* is in the store afterwards, and the response differs from the response to
\* a failed write
C12_RefreshFailureDistinct ==
    [][\A t \in Tasks :
          RefreshFails(t) =>
              /\ db' = ApplyW(db, task[t].w)
              /\ task'[t].result.http \notin
                     {HttpOf(task[t].op, e) : e \in WriteErrors}]_vars

\* every operation that was started has answered with success, so that no
\* statement and no refresh is in progress
AllSucceeded ==
    \A t \in Tasks :
        \/ task[t].pc = "idle"
        \/ task[t].pc = "done" /\ task[t].result.http \in {200, 201}

\* C13: once every concurrent write operation has returned success, the index
\* holds exactly the live companies, each with its current joined values
C13_IndexConverges ==
    AllSucceeded => company_search = View(db)

\* a refresh statement of a router completes on this step
RefreshCompletes(t) ==
    /\ task[t].pc \in RefreshPcs \ {"du_refresh"}
    /\ StepOf(t)
    /\ task'[t].result.msg # "refresh_failed"

\* the refresh inside the transaction of delete_user_by_uuid completes on
\* this step; its result is installed by the COMMIT
RefreshCompletesInTx(t) ==
    /\ task[t].pc = "du_refresh"
    /\ StepOf(t)
    /\ task'[t].w.mvset

\* view holds one row per live company of the rows read, the one the join
\* yields, and none for an archived company
OneRowPerLive(read, view) ==
    /\ DOMAIN view = Ids(read, "companies")
    /\ DOMAIN view \cap Ids(read, "companies_deleted") = {}
    /\ \A c \in DOMAIN view :
          /\ Cardinality(JoinRows(read, c)) = 1
          /\ view[c] \in JoinRows(read, c)

\* C15: right after a refresh completes the index holds exactly one row per
\* company live in the state the refresh read, keyed by company id, and no
\* row for an archived company
C15_OneRowPerLiveCompany ==
    [][\A t \in Tasks :
          /\ RefreshCompletes(t) => OneRowPerLive(db, company_search')
          /\ RefreshCompletesInTx(t) => OneRowPerLive(Reads(t), task'[t].w.mv)
          /\ (task[t].pc = "du_commit" /\ StepOf(t) /\ task[t].w.mvset)
                 => company_search' = task[t].w.mv]_vars

\* a refresh has completed after a company was archived, and live companies
\* remain in the index
C15_Witness ==
    /\ Ids(db, "companies_deleted") # {}
    /\ company_search = View(db)
    /\ DOMAIN company_search # {}
    /\ \E t \in Tasks :
          /\ task[t].op \in {"delete_company", "delete_me"}
          /\ task[t].pc = "done"
          /\ task[t].result.http = 200

\* the live tables alone
LiveOnly(rows) == [tb \in Tables |-> IF tb \in LiveTables THEN rows[tb] ELSE Empty]

\* C16: the index a refresh produces is a function of the live companies,
\* products, users and communes it read, whatever the index held before, and
\* a refresh of an index that is already that function changes nothing
C16_RefreshFunctionOfLive ==
    [][\A t \in Tasks :
          /\ RefreshCompletes(t) =>
                /\ company_search' = View(LiveOnly(db))
                /\ company_search = View(LiveOnly(db))
                       => company_search' = company_search
          /\ RefreshCompletesInTx(t) =>
                task'[t].w.mv = View(LiveOnly(Reads(t)))]_vars

\* a refresh has replaced an index that held a company no longer live, with
\* archived rows in the store
C16_Witness ==
    /\ Ids(db, "companies_deleted") # {}
    /\ \E t \in Tasks :
          /\ task[t].op = "delete_company"
          /\ task[t].pc = "done"
          /\ task[t].result.http = 200
          /\ task[t].company \notin DOMAIN company_search

\* ------------------------------------------------------------------ search properties

\* the step on which the SELECT of a search of task t runs
SearchRuns(t) ==
    /\ task[t].pc \in {"sc_query", "dsc_query"}
    /\ StepOf(t)

\* C14: search reads only the index: a step that commits a change to
\* companies, products, communes or users and leaves the index as it is does
\* not change what the search of any request returns, be it still to run or
\* run again
C14_SearchReadsOnlyIndex ==
    [][(db' # db /\ company_search' = company_search) =>
          \A t \in Tasks :
              task[t].op \in SearchOps =>
                  search_result(task[t].q, task[t].lang)' =
                      search_result(task[t].q, task[t].lang)]_vars

\* a search has returned a row that differs from what the live tables join
\* to: a rename was committed and its refresh has not run yet
C14_Witness ==
    \E t \in Tasks :
        /\ task[t].op \in SearchOps
        /\ task[t].pc = "done"
        /\ \E c \in DOMAIN task[t].companies :
              /\ c \in Ids(db, "companies")
              /\ task[t].companies[c] # ViewRow(db, c)
              /\ task[t].companies[c] = company_search[c]

\* the terms of the query of task t
TermsOf(t) == {split(task[t].q)[i] : i \in 1..Len(split(task[t].q))}

\* C17 as stated: a search returns a company only if every term of the query
\* matches the indexed text of the company
C17_EveryTermMatches ==
    [][\A t \in Tasks :
          SearchRuns(t) =>
              \A c \in DOMAIN task'[t].companies :
                  \A w \in TermsOf(t) :
                      Lexeme(lang_config(task[t].lang), w)
                          \in search_vector(company_search[c])]_vars

\* C17: a search returns a company only if every term of the query that is not
\* a stop word of the language matches the indexed text of the company, and a
\* company matching only some of those terms is never returned
C17_EveryIndexedTermMatches ==
    [][\A t \in Tasks :
          SearchRuns(t) =>
              \A c \in DOMAIN task'[t].companies :
                  \A w \in TermsOf(t) :
                      \/ Lexeme(lang_config(task[t].lang), w) = STOP
                      \/ Lexeme(lang_config(task[t].lang), w)
                             \in search_vector(company_search[c])]_vars

\* a search for two terms that are not stop words has returned a company
C17_Witness ==
    \E t \in Tasks :
        /\ task[t].op \in SearchOps
        /\ task[t].pc = "done"
        /\ Cardinality({w \in TermsOf(t) :
                           Lexeme(lang_config(task[t].lang), w) # STOP}) = 2
        /\ task[t].companies # Empty

\* the vector built for a language
VectorFor(lang, r) == IF lang = "es" THEN spanish_vector(r) ELSE english_vector(r)

\* C18: a search with language L returns a company only if the query matches
\* the text vector built for L
C18_MatchesOwnLanguageOnly ==
    [][\A t \in Tasks :
          (SearchRuns(t) /\ task[t].lang \in {"es", "en"}) =>
              \A c \in DOMAIN task'[t].companies :
                  Matches(VectorFor(task[t].lang, company_search[c]),
                          to_tsquery(lang_config(task[t].lang),
                                     formatted_query(task[t].q)))]_vars

\* the search of task t has not reached its SELECT, or was rejected
NotQueried(t) ==
    \/ task[t].pc \in {"sc_validate", "dsc_query"}
    \/ /\ task[t].pc = "done"
       /\ task[t].result.msg = "rejected"
       /\ task[t].result.exc \in {"ValidationError", "RequestValidationError"}

\* C19: a search whose language is neither es nor en is rejected before any
\* query runs against the index, on both entry points
C19_BadLanguageRejected ==
    \A t \in Tasks :
        (task[t].op \in SearchOps /\ task[t].lang \notin {"es", "en"})
            => NotQueried(t)

\* C20: a search whose query is empty or only whitespace is rejected with a
\* ValidationError and never reaches the index
C20_BlankQueryRejected ==
    \A t \in Tasks :
        (task[t].op \in SearchOps /\ split(task[t].q) = <<>>)
            => NotQueried(t)

\* ------------------------------------------------------------------ execute_with_retry

\* the names db_retry.py binds at module level: its imports and definitions
ModuleNames ==
    {"asyncpg", "structlog", "retry", "stop_after_attempt", "wait_exponential",
     "retry_if_exception_type", "before_sleep_log", "Callable", "Any",
     "TypeVar", "Awaitable", "settings", "logger", "T", "TRANSIENT_ERRORS",
     "db_retry", "execute_with_retry"}

\* the global names the body of db_retry reads when it is called
NamesRead ==
    {"retry", "stop_after_attempt", "wait_exponential",
     "retry_if_exception_type", "TRANSIENT_ERRORS", "before_sleep_log",
     "logger", "logging"}

\* names whose lookup raises NameError
UndefinedNames == NamesRead \ ModuleNames

\* what an attempt of the underlying operation does
Outcomes == {"ok", "ConnectionFailureError", "SerializationFailureError", "ValueError"}

\* the outcome of each attempt the operation would make
Scripts == [1..db_retry_attempts -> Outcomes]

\* retry(stop=stop_after_attempt(n), retry=retry_if_exception_type(TRANSIENT_ERRORS),
\* reraise=True): the operation is called until an attempt does not raise a
\* transient error or n attempts are made; the outcome of the last call is
\* returned or raised as it is
Retrying(script) ==
    LET last == CHOOSE i \in 1..db_retry_attempts :
                   /\ script[i] \notin TRANSIENT_ERRORS \/ i = db_retry_attempts
                   /\ \A j \in 1..(i - 1) : script[j] \in TRANSIENT_ERRORS
    IN  [calls |-> last, outcome |-> script[last]]

start_execute_with_retry(t) == \E script \in Scripts :
    /\ task[t].pc = "idle"
    /\ \A o \in Tasks : o < t => task[o].pc # "idle"
    /\ task' = [task EXCEPT ![t] =
                   [IdleTask EXCEPT !.op = "execute_with_retry",
                                    !.pc = "ewr_call", !.script = script]]
    /\ UNCHANGED <<db, company_search, faults, removed, pool>>

\* `@db_retry()` builds the decorator first: a name it reads that the module
\* does not bind raises NameError, outside the try block; otherwise _execute
\* runs under the retry policy and both except clauses re-raise
execute_with_retry_call(t) ==
    /\ task[t].pc = "ewr_call"
    /\ task' = [task EXCEPT ![t] =
            IF UndefinedNames # {}
            THEN Respond(t, 0, "NameError", "logging", 0)
            ELSE LET r == Retrying(task[t].script)
                 IN  IF r.outcome = "ok"
                     THEN Respond(t, 0, "none", "returned", r.calls)
                     ELSE Respond(t, 0, r.outcome, "raised", r.calls)]
    /\ UNCHANGED <<db, company_search, faults, removed, pool>>

execute_with_retry(t) ==
    \/ start_execute_with_retry(t)
    \/ execute_with_retry_call(t)

NextRetry == \E t \in Tasks : execute_with_retry(t)

SpecRetry == Init /\ [][NextRetry]_vars

\* ------------------------------------------------------------------ retry properties

\* task t called execute_with_retry and the call is over
Retried(t) == task[t].op = "execute_with_retry" /\ task[t].pc = "done"

\* C21: an operation that fails with a transient error on its first two
\* attempts and succeeds on the third returns to the caller without error,
\* after exactly three attempts
C21_ThirdAttemptReturned ==
    \A t \in Tasks :
        (/\ Retried(t)
         /\ task[t].script[1] \in TRANSIENT_ERRORS
         /\ task[t].script[2] \in TRANSIENT_ERRORS
         /\ task[t].script[3] = "ok")
            => task[t].result.exc = "none" /\ task[t].result.count = 3

\* C22: an operation that fails with a transient error on every attempt is
\* attempted exactly db_retry_attempts times and the caller gets the error of
\* the last attempt, not an error of the wrapper
C22_ExhaustedReraisesLast ==
    \A t \in Tasks :
        (/\ Retried(t)
         /\ \A i \in 1..db_retry_attempts : task[t].script[i] \in TRANSIENT_ERRORS)
            => /\ task[t].result.count = db_retry_attempts
               /\ task[t].result.exc = task[t].script[db_retry_attempts]

\* C23: an operation whose first attempt fails with a non-transient error is
\* attempted exactly once and that error reaches the caller
C23_NonTransientOnce ==
    \A t \in Tasks :
        (/\ Retried(t)
         /\ task[t].script[1] \notin TRANSIENT_ERRORS \cup {"ok"})
            => /\ task[t].result.count = 1
               /\ task[t].result.exc = task[t].script[1]

\* ------------------------------------------------------------------ transaction properties

\* C24: every retry re-runs the whole transaction: when an attempt counter of
\* a wrapped function goes up, the transaction of the previous attempt has
\* been rolled back and none of its writes is pending
C24_RetryRerunsWholeTransaction ==
    [][\A t \in Tasks :
          (task'[t].attempt > task[t].attempt \/ task'[t].inner > task[t].inner)
              => /\ task'[t].tx = "none"
                 /\ task'[t].w = NoWrites]_vars

\* the step on which a failure inside the transaction of task t leaves
\* `transaction`: towards the caller, or towards the next attempt
FailsInTransaction(t) ==
    /\ Open(t)
    /\ \/ task'[t].attempt > task[t].attempt
       \/ task'[t].pc = "done" /\ task'[t].result.exc # "none"

LiveAndOwned(rows, c, r) ==
    /\ c \in Ids(rows, "companies")
    /\ rows["companies"][c].user_uuid = r

\* the step with which delete_company of task t ends
DeleteCompanyEnds(t) ==
    /\ task[t].op = "delete_company"
    /\ StepOf(t)
    /\ task'[t].pc = "done"

\* C26: delete_company(c, r) ends in one of two ways: it returned true and c
\* is archived and no longer live, or c was not live and owned by r and it
\* returned false without an error, leaving live tables, shadow tables and
\* index as they were
C26_DeleteCompanyTrueOrFalse ==
    [][\A t \in Tasks :
          DeleteCompanyEnds(t) =>
              \/ /\ task'[t].result.http = 200
                 /\ task[t].company \in Ids(db', "companies_deleted")
                 /\ task[t].company \notin Ids(db', "companies")
              \/ /\ task'[t].result.http = 404
                 /\ task'[t].result.exc = "none"
                 /\ ~LiveAndOwned(db, task[t].company, task[t].requester)
                 /\ db' = db
                 /\ company_search' = company_search]_vars

\* another call of delete_company with the company and requester of task t
\* has returned true
DeletedBefore(t) ==
    \E o \in Tasks \ {t} :
        /\ task[o].op = "delete_company"
        /\ task[o].pc = "done"
        /\ task[o].result.http = 200
        /\ task[o].company = task[t].company
        /\ task[o].requester = task[t].requester

\* C27: a second delete_company with the same company and owner, run after
\* the first has returned true, returns false without raising and changes
\* nothing; the archive holds the row of the company
C27_SecondDeleteReturnsFalse ==
    [][\A t \in Tasks :
          (/\ task[t].op = "delete_company"
           /\ task[t].pc = "dc_select"
           /\ task[t].attempt = 1
           /\ StepOf(t)
           /\ DeletedBefore(t))
              => /\ task'[t].pc = "done"
                 /\ task'[t].result.http = 404
                 /\ task'[t].result.exc = "none"
                 /\ db' = db
                 /\ company_search' = company_search
                 /\ task[t].company \in Ids(db', "companies_deleted")]_vars

\* the second of two calls for the same company and owner has returned
\* false after the first returned true
C27_Witness ==
    \E t \in Tasks :
        /\ task[t].op = "delete_company"
        /\ task[t].pc = "done"
        /\ task[t].result.http = 404
        /\ DeletedBefore(t)
        /\ task[t].company \in Ids(db, "companies_deleted")

\* ------------------------------------------------------------------ admin properties

\* admin_delete_company_by_uuid returns or raises on this step
AdminDeleteEnds(t) ==
    /\ task[t].op = "admin_delete_company"
    /\ task[t].pc # "done"
    /\ task'[t].pc = "done"

\* the company is archived and no longer live
Archived(rows, c) ==
    /\ c \in Ids(rows, "companies_deleted")
    /\ c \notin Ids(rows, "companies")

CatalogOps ==
    {"create_product", "update_product", "delete_product",
     "create_commune", "update_commune", "delete_commune"}

\* C29: every step of a catalogue operation of a requester who is not the
\* admin ends it with the forbidden response, with no transaction begun and
\* tables, shadow tables and index as they were
C29_NonAdminForbidden ==
    [][\A t \in Tasks :
          (/\ task[t].op \in CatalogOps
           /\ ~is_admin(task[t].requester)
           /\ StepOf(t))
              => /\ task'[t].pc = "done"
                 /\ task'[t].result.http = 403
                 /\ ~Open(t)
                 /\ db' = db
                 /\ company_search' = company_search]_vars

\* a catalogue operation answers with success on this step
CatalogSucceeds(t) ==
    /\ task[t].op \in CatalogOps
    /\ task[t].pc # "done"
    /\ task'[t].pc = "done"
    /\ task'[t].result.http \in {200, 201}

\* the step is a REFRESH MATERIALIZED VIEW of task t that completes: the
\* index is recomputed from the committed rows
RefreshedBy(t) ==
    /\ task[t].pc \in RefreshPcs
    /\ company_search' = View(db)
    /\ db' = db

\* C30 as stated: each of the six catalogue operations answers with success
\* on the step on which its index refresh completes
C30_SuccessAfterRefresh ==
    [][\A t \in Tasks : CatalogSucceeds(t) => RefreshedBy(t)]_vars

\* C30: update_product, delete_product, update_commune and delete_commune
\* answer with success on the step on which their index refresh completes;
\* create_product and create_commune answer with success on their INSERT,
\* with no refresh, the index left as it was
C30_SuccessAfterRefreshButCreate ==
    [][\A t \in Tasks :
          CatalogSucceeds(t) =>
              IF task[t].op \in {"create_product", "create_commune"}
              THEN /\ task[t].pc = "cp_insert"
                   /\ db' # db
                   /\ company_search' = company_search
              ELSE RefreshedBy(t)]_vars

\* a product or commune has been created, and one has been updated or
\* deleted, each answered with success
C30_Witness ==
    /\ \E t \in Tasks :
           /\ task[t].op \in {"create_product", "create_commune"}
           /\ task[t].result.http = 201
    /\ \E o \in Tasks :
           /\ task[o].op \in CatalogOps \ {"create_product", "create_commune"}
           /\ task[o].result.http = 200

\* ------------------------------------------------------------------ update_company properties

UpdateCompanyOps == {"update_company", "db_update_company"}

\* the value the request of task record r provides for column f of companies
Provided(r, f) ==
    CASE f = "product_uuid" -> r.product
      [] f = "commune_uuid" -> r.commune
      [] f = "name" -> r.name
      [] OTHER -> NULL

\* the step is the one on which the UPDATE of task t, having matched the
\* row, becomes part of the committed state
UpdateLands(t) ==
    \/ /\ task[t].pc = "uc_update"
       /\ task'[t].pc = "uc_refresh"
       /\ task[t].company \in Ids(db, "companies")
    \/ /\ task[t].pc = "dbuc_commit"
       /\ task'[t].pc = "done"
       /\ task'[t].result.exc = "none"
       /\ task[t].company \in DOMAIN task[t].w.put["companies"]

\* update_company ends on this step with one of its failures: the company
\* is absent, the requester is not the owner, the product or commune is
\* unknown, or no field is provided
UpdateFails(t) ==
    /\ task'[t].pc = "done"
    /\ \/ task'[t].result.http \in {400, 403, 404, 422}
       \/ task'[t].result.exc \in {"ValueError", "PermissionError"}

\* C31: a step of update_company changes no table but companies and no row
\* but the one of its company, and there only columns the request provides,
\* to the value provided; when the UPDATE lands every provided column has
\* its new value; an update_company that fails has written nothing
C31_UpdateChangesOnlyProvided ==
    [][\A t \in Tasks :
          (task'[t].op \in UpdateCompanyOps /\ StepOf(t)) =>
              LET c == task'[t].company
                  old == db["companies"]
                  new == db'["companies"]
              IN  /\ \A tb \in Tables : Ids(db', tb) = Ids(db, tb)
                  /\ \A tb \in Tables : \A id \in Ids(db, tb) :
                         (tb # "companies" \/ id # c) => db'[tb][id] = db[tb][id]
                  /\ c \in DOMAIN old =>
                         \A f \in DOMAIN old[c] :
                             new[c][f] # old[c][f] =>
                                 /\ Provided(task'[t], f) # NULL
                                 /\ new[c][f] = Provided(task'[t], f)
                  /\ UpdateLands(t) =>
                         \A f \in DOMAIN new[c] :
                             Provided(task[t], f) # NULL =>
                                 new[c][f] = Provided(task[t], f)
                  /\ UpdateFails(t) =>
                         /\ db' = db
                         /\ task[t].w = NoWrites
                         /\ task[t].pc \in {"idle", "uc_owner", "uc_product",
                                            "uc_commune", "dbuc_owner",
                                            "dbuc_product", "dbuc_commune"}]_vars

\* an update_company that provided a name has succeeded: the company has
\* the new name and the product it had, a second company is as it was, and
\* another update_company has failed
C31_Witness ==
    \E t \in Tasks, c \in Ids(db, "companies") :
        /\ task[t].op \in UpdateCompanyOps
        /\ task[t].pc = "done"
        /\ task[t].result.msg = "updated"
        /\ task[t].name = "taller"
        /\ db["companies"][task[t].company] =
               CompanyRow(task[t].requester, "p1", "m1", "taller")
        /\ c # task[t].company
        /\ db["companies"][c] = CompanyRow(OwnerOf(c), "p1", "m1", "bakery")
        /\ \E o \in Tasks \ {t} :
               /\ task[o].op \in UpdateCompanyOps
               /\ task[o].pc = "done"
               /\ task[o].result.msg \in {"not_found", "not_owner", "no_fields",
                                          "product_does_not_exist",
                                          "commune_does_not_exist",
                                          "description_required"}

\* ------------------------------------------------------------------ shadow table properties

\* C32: every committed shadow row is there, with the same content, in the
\* next committed state, and no open transaction holds an insert for an id
\* its shadow table already has
C32_ShadowAppendOnly ==
    [][/\ \A sh \in ShadowTables : \A id \in Ids(db, sh) :
              /\ id \in Ids(db', sh)
              /\ db'[sh][id] = db[sh][id]
       /\ \A t \in Tasks : \A sh \in ShadowTables :
              DOMAIN task[t].w.put[sh] \cap Ids(db, sh) = {}]_vars

\* a company was archived, a second archive of the same id was refused by
\* the primary key, and another shadow table holds a row as well
C32_Witness ==
    /\ \E t \in Tasks :
           /\ task[t].result.msg = "companies_deleted_pkey"
           /\ task[t].company \in Ids(db, "companies_deleted")
    /\ \E sh \in ShadowTables \ {"companies_deleted"} : Ids(db, sh) # {}

\* ------------------------------------------------------------------ connection pool properties

\* the connection of task t goes back to the pool on this step
Released(t) == Borrowed(t) /\ \A k \in Conns : t \notin pool'[k]

\* C33: no connection is borrowed by two requests at once; a connection
\* goes back to the pool with its transaction committed or rolled back;
\* and no transaction is open on a connection that is in the pool
C33_ConnectionExclusiveAndClean ==
    [][/\ \A k \in Conns : Cardinality(pool[k]) <= 1
       /\ \A t \in Tasks : Released(t) => ~Open(t)
       /\ \A t \in Tasks : Open(t) => Borrowed(t)]_vars

\* the live rows an open transaction has deleted so far are all rows it has
\* inserted into the shadow table before
ArchivedBeforeDeleted(t) ==
    \A tb \in LiveTables :
        task[t].w.del[tb] \subseteq DOMAIN task[t].w.put[ShadowOf(tb)]

\* the cascade has archived and removed every company it selected
CompaniesGone(t) ==
    /\ task[t].todo = {}
    /\ DOMAIN task[t].companies \subseteq task[t].w.del["companies"]
    /\ DOMAIN task[t].companies \subseteq DOMAIN task[t].w.put["companies_deleted"]

\* C34: inside every archive transaction the shadow insert of a row comes
\* before the live delete of that row, so at every step of the transaction a
\* row it has deleted from the live table is in the shadow table; in the
\* cascade the user row is archived or removed only after all the companies
\* of the user were archived and removed
C34_ShadowInsertBeforeLiveDelete ==
    \A t \in Tasks :
        Open(t) =>
            /\ ArchivedBeforeDeleted(t)
            /\ task[t].op \in CascadeOps
               /\ (\/ task[t].user \in DOMAIN task[t].w.put["users_deleted"]
                   \/ task[t].user \in task[t].w.del["users"])
               => CompaniesGone(t)

\* a cascade about to commit with a company and the user archived and
\* removed, and a delete of one company about to commit
C34_Witness ==
    \E t \in Tasks, o \in Tasks :
        /\ task[t].op \in CascadeOps /\ task[t].pc = "du_commit"
        /\ task[t].count > 0
        /\ task[t].user \in task[t].w.del["users"]
        /\ task[o].op = "delete_company" /\ task[o].pc = "dc_commit"
        /\ task[o].w.del["companies"] # {}

\* task o was an archive operation on the company that delete_company of
\* task t archived: a delete_company of that company, or the cascade of its
\* owner; o has ended, not with an injected connection failure and not
\* turned away by its router before it reached the store
ArchivedSameCompany(t, o) ==
    /\ t # o
    /\ task[t].op = "delete_company"
    /\ task[t].pc = "done"
    /\ task[t].result.http = 200
    /\ task[o].pc = "done"
    /\ task[o].result.exc \notin {"ConnectionFailureError", "HTTPException"}
    /\ \/ task[o].op = "delete_company" /\ task[o].company = task[t].company
       \/ task[o].op \in CascadeOps /\ task[o].user = task[t].requester

\* C35: of two archive operations on one live company exactly one archives
\* the row; the other one observes the row as absent: a delete_company ends
\* with its not-found outcome, a cascade of the owner ends without an error
C35_OneArchivesOtherNotFound ==
    \A t \in Tasks, o \in Tasks :
        ArchivedSameCompany(t, o) =>
            IF task[o].op = "delete_company"
            THEN task[o].result.http = 404 /\ task[o].result.exc = "none"
            ELSE task[o].result.exc \in {"none", "ValueError"}

\* task t of create_company runs the lookup of a product or commune id that
\* is not in the live table (the statement itself does not fail)
LooksUpUnknown(t) ==
    /\ task[t].op \in CreateOps
    /\ StepOf(t)
    /\ faults' = faults
    /\ \/ /\ task[t].pc \in {"cc_product", "dbcc_product"}
          /\ task[t].product \notin Ids(db, "products")
       \/ /\ task[t].pc \in {"cc_commune", "dbcc_commune"}
          /\ task[t].commune \notin Ids(db, "communes")

\* the validation errors of create_company: 400 from the router, ValueError
\* from DB.create_company
ValidationError(r) ==
    \/ r.http = 400 /\ r.exc = "HTTPException"
    \/ r.exc = "ValueError"

\* C36: create_company with a product id or commune id that is not in the
\* live table ends with a validation error and creates no company: the rows
\* of every table and the search index stay as they were
C36_UnknownReferenceRejected ==
    [][\A t \in Tasks :
          LooksUpUnknown(t) =>
              /\ task'[t].pc = "done"
              /\ ValidationError(task'[t].result)
              /\ task'[t].result.msg \in {"product_does_not_exist",
                                          "commune_does_not_exist"}
              /\ db' = db
              /\ company_search' = company_search]_vars

\* a create_company was turned away for a product or a commune that had
\* been deleted
C36_Witness ==
    \E t \in Tasks :
        /\ task[t].op \in CreateOps
        /\ task[t].pc = "done"
        /\ ValidationError(task[t].result)
        /\ \/ /\ task[t].result.msg = "product_does_not_exist"
              /\ task[t].product \notin Ids(db, "products")
           \/ /\ task[t].result.msg = "commune_does_not_exist"
              /\ task[t].commune \notin Ids(db, "communes")

\* the live ids of table tb that the step removes
RemovedIds(tb) == Ids(db, tb) \ Ids(db', tb)

\* C37: under retries after transient failures, the connection failure
\* reported after the server committed included, one call applies its
\* effects at most once: a step of a create_company call adds at most one
\* company and leaves its user with at most one live company; a step of a
\* delete call removes no live row that is not in the shadow table
\* afterwards, and writes no shadow row for an id that has one
C37_AppliedAtMostOnce ==
    [][\A t \in Tasks :
          StepOf(t) =>
              /\ task[t].op = "db_create_company" =>
                     /\ Cardinality(Ids(db', "companies") \ Ids(db, "companies")) <= 1
                     /\ Cardinality(CompaniesWhere(db', "user_uuid",
                                                   task[t].requester)) <= 1
              /\ task[t].op \in {"delete_company"} \cup CascadeOps =>
                     \A tb \in {"users", "companies"} :
                         /\ RemovedIds(tb) \subseteq Ids(db', ShadowOf(tb))
                         /\ DOMAIN task[t].w.put[ShadowOf(tb)]
                                \cap Ids(db, ShadowOf(tb)) = {}]_vars

\* the only call so far, a delete_company, lost the reply to its COMMIT; its
\* second attempt found the company archived and returned false
C37_Witness ==
    \E t \in Tasks :
        /\ task[t].op = "delete_company"
        /\ task[t].pc = "done"
        /\ task[t].attempt = 2
        /\ task[t].result.http = 404
        /\ task[t].company \in Ids(db, "companies_deleted")
        /\ task[t].company \notin Ids(db, "companies")
        /\ \A o \in Tasks \ {t} : task[o].pc = "idle"

\* C38: in every committed state no two live products share an English
\* name or share a Spanish name, and no two live communes share a name
C38_NamesUnique ==
    /\ \A p \in Ids(db, "products"), q \in Ids(db, "products") :
           p # q => /\ db["products"][p].name_en # db["products"][q].name_en
                    /\ db["products"][p].name_es # db["products"][q].name_es
    /\ \A m \in Ids(db, "communes"), n \in Ids(db, "communes") :
           m # n => db["communes"][m].name # db["communes"][n].name

====
